---- MODULE Spec2Model ----
(***************************************************************************)
(* The onboarding workflow of the ESG portfolio front end: the company     *)
(* search popup (CompanySearchPopup.jsx, the version that calls the        *)
(* backend), the addCompany call of api.js, the directory search of        *)
(* companies.js and the portfolio list kept by Dashboard.                  *)
(*                                                                         *)
(* JavaScript strings that the code trims, lower-cases or searches are     *)
(* sequences of one-character strings; messages that are only stored and   *)
(* shown are TLA+ strings.  null and undefined are the sentinels below.    *)
(***************************************************************************)
EXTENDS Integers, Sequences, FiniteSets, TLC

\* ---------------------------------------------------------------- bounds
\* Jobs submitted in one run of the model.
MaxJobs == 2
\* Sign-ins in one run of the model (mounts of Dashboard).
MaxSessions == 1

\* ------------------------------------------------------- JavaScript values
\* null, as the value of the string states error and ticker.
Null == "null"
\* null, where the value is otherwise a sequence of characters (the name
\* of addingCompany, a metric key).
NullName == <<"null">>
\* undefined, as the value of a missing domain property.
Undefined == <<"undefined">>
\* undefined, as the value of a missing ticker property.
UndefinedStr == "undefined"

AcmeCo == <<"A", "c", "m", "e", " ", "C", "o">>
BetaInc == <<"B", "e", "t", "a">>
Empty == <<>>

\* ---------------------------------------------------------- companies.js
companiesDatabase ==
    <<
       [name |-> <<"O", "p", "e", "n", "A", "I">>,
        domain |-> <<"o", "p", "e", "n", "a", "i", ".", "c", "o", "m">>],
       [name |-> <<"G", "o", "o", "g", "l", "e">>,
        domain |-> <<"g", "o", "o", "g", "l", "e", ".", "c", "o", "m">>],
       [name |-> <<"A", "p", "p", "l", "e">>,
        domain |-> <<"a", "p", "p", "l", "e", ".", "c", "o", "m">>],
       [name |-> <<"M", "i", "c", "r", "o", "s", "o", "f", "t">>,
        domain |-> <<"m", "i", "c", "r", "o", "s", "o", "f", "t", ".", "c", "o", "m">>],
       [name |-> <<"A", "m", "a", "z", "o", "n">>,
        domain |-> <<"a", "m", "a", "z", "o", "n", ".", "c", "o", "m">>],
       [name |-> <<"M", "e", "t", "a">>,
        domain |-> <<"m", "e", "t", "a", ".", "c", "o", "m">>],
       [name |-> <<"T", "e", "s", "l", "a">>,
        domain |-> <<"t", "e", "s", "l", "a", ".", "c", "o", "m">>],
       [name |-> <<"N", "e", "t", "f", "l", "i", "x">>,
        domain |-> <<"n", "e", "t", "f", "l", "i", "x", ".", "c", "o", "m">>],
       [name |-> <<"N", "V", "I", "D", "I", "A">>,
        domain |-> <<"n", "v", "i", "d", "i", "a", ".", "c", "o", "m">>],
       [name |-> <<"A", "M", "D">>,
        domain |-> <<"a", "m", "d", ".", "c", "o", "m">>],
       [name |-> <<"I", "n", "t", "e", "l">>,
        domain |-> <<"i", "n", "t", "e", "l", ".", "c", "o", "m">>],
       [name |-> <<"I", "B", "M">>,
        domain |-> <<"i", "b", "m", ".", "c", "o", "m">>],
       [name |-> <<"O", "r", "a", "c", "l", "e">>,
        domain |-> <<"o", "r", "a", "c", "l", "e", ".", "c", "o", "m">>],
       [name |-> <<"A", "d", "o", "b", "e">>,
        domain |-> <<"a", "d", "o", "b", "e", ".", "c", "o", "m">>],
       [name |-> <<"S", "a", "l", "e", "s", "f", "o", "r", "c", "e">>,
        domain |-> <<"s", "a", "l", "e", "s", "f", "o", "r", "c", "e", ".", "c", "o", "m">>],
       [name |-> <<"S", "h", "o", "p", "i", "f", "y">>,
        domain |-> <<"s", "h", "o", "p", "i", "f", "y", ".", "c", "o", "m">>],
       [name |-> <<"Z", "o", "o", "m">>,
        domain |-> <<"z", "o", "o", "m", ".", "u", "s">>],
       [name |-> <<"S", "l", "a", "c", "k">>,
        domain |-> <<"s", "l", "a", "c", "k", ".", "c", "o", "m">>],
       [name |-> <<"D", "r", "o", "p", "b", "o", "x">>,
        domain |-> <<"d", "r", "o", "p", "b", "o", "x", ".", "c", "o", "m">>],
       [name |-> <<"A", "t", "l", "a", "s", "s", "i", "a", "n">>,
        domain |-> <<"a", "t", "l", "a", "s", "s", "i", "a", "n", ".", "c", "o", "m">>],
       [name |-> <<"G", "i", "t", "H", "u", "b">>,
        domain |-> <<"g", "i", "t", "h", "u", "b", ".", "c", "o", "m">>],
       [name |-> <<"G", "i", "t", "L", "a", "b">>,
        domain |-> <<"g", "i", "t", "l", "a", "b", ".", "c", "o", "m">>],
       [name |-> <<"D", "o", "c", "k", "e", "r">>,
        domain |-> <<"d", "o", "c", "k", "e", "r", ".", "c", "o", "m">>],
       [name |-> <<"R", "e", "d", " ", "H", "a", "t">>,
        domain |-> <<"r", "e", "d", "h", "a", "t", ".", "c", "o", "m">>],
       [name |-> <<"V", "M", "w", "a", "r", "e">>,
        domain |-> <<"v", "m", "w", "a", "r", "e", ".", "c", "o", "m">>],
       [name |-> <<"C", "i", "s", "c", "o">>,
        domain |-> <<"c", "i", "s", "c", "o", ".", "c", "o", "m">>],
       [name |-> <<"H", "P">>,
        domain |-> <<"h", "p", ".", "c", "o", "m">>],
       [name |-> <<"D", "e", "l", "l">>,
        domain |-> <<"d", "e", "l", "l", ".", "c", "o", "m">>],
       [name |-> <<"S", "a", "m", "s", "u", "n", "g">>,
        domain |-> <<"s", "a", "m", "s", "u", "n", "g", ".", "c", "o", "m">>],
       [name |-> <<"S", "o", "n", "y">>,
        domain |-> <<"s", "o", "n", "y", ".", "c", "o", "m">>],
       [name |-> <<"N", "i", "n", "t", "e", "n", "d", "o">>,
        domain |-> <<"n", "i", "n", "t", "e", "n", "d", "o", ".", "c", "o", "m">>],
       [name |-> <<"S", "t", "r", "i", "p", "e">>,
        domain |-> <<"s", "t", "r", "i", "p", "e", ".", "c", "o", "m">>],
       [name |-> <<"P", "a", "y", "P", "a", "l">>,
        domain |-> <<"p", "a", "y", "p", "a", "l", ".", "c", "o", "m">>],
       [name |-> <<"S", "q", "u", "a", "r", "e">>,
        domain |-> <<"s", "q", "u", "a", "r", "e", ".", "c", "o", "m">>],
       [name |-> <<"C", "o", "i", "n", "b", "a", "s", "e">>,
        domain |-> <<"c", "o", "i", "n", "b", "a", "s", "e", ".", "c", "o", "m">>],
       [name |-> <<"R", "o", "b", "i", "n", "h", "o", "o", "d">>,
        domain |-> <<"r", "o", "b", "i", "n", "h", "o", "o", "d", ".", "c", "o", "m">>],
       [name |-> <<"R", "e", "v", "o", "l", "u", "t">>,
        domain |-> <<"r", "e", "v", "o", "l", "u", "t", ".", "c", "o", "m">>],
       [name |-> <<"N", "2", "6">>,
        domain |-> <<"n", "2", "6", ".", "c", "o", "m">>],
       [name |-> <<"C", "h", "i", "m", "e">>,
        domain |-> <<"c", "h", "i", "m", "e", ".", "c", "o", "m">>],
       [name |-> <<"P", "l", "a", "i", "d">>,
        domain |-> <<"p", "l", "a", "i", "d", ".", "c", "o", "m">>],
       [name |-> <<"V", "i", "s", "a">>,
        domain |-> <<"v", "i", "s", "a", ".", "c", "o", "m">>],
       [name |-> <<"M", "a", "s", "t", "e", "r", "c", "a", "r", "d">>,
        domain |-> <<"m", "a", "s", "t", "e", "r", "c", "a", "r", "d", ".", "c", "o", "m">>],
       [name |-> <<"J", "P", "M", "o", "r", "g", "a", "n", " ", "C", "h", "a", "s", "e">>,
        domain |-> <<"j", "p", "m", "o", "r", "g", "a", "n", "c", "h", "a", "s", "e", ".", "c", "o", "m">>],
       [name |-> <<"G", "o", "l", "d", "m", "a", "n", " ", "S", "a", "c", "h", "s">>,
        domain |-> <<"g", "o", "l", "d", "m", "a", "n", "s", "a", "c", "h", "s", ".", "c", "o", "m">>],
       [name |-> <<"M", "o", "r", "g", "a", "n", " ", "S", "t", "a", "n", "l", "e", "y">>,
        domain |-> <<"m", "o", "r", "g", "a", "n", "s", "t", "a", "n", "l", "e", "y", ".", "c", "o", "m">>],
       [name |-> <<"B", "a", "n", "k", " ", "o", "f", " ", "A", "m", "e", "r", "i", "c", "a">>,
        domain |-> <<"b", "a", "n", "k", "o", "f", "a", "m", "e", "r", "i", "c", "a", ".", "c", "o", "m">>],
       [name |-> <<"W", "e", "l", "l", "s", " ", "F", "a", "r", "g", "o">>,
        domain |-> <<"w", "e", "l", "l", "s", "f", "a", "r", "g", "o", ".", "c", "o", "m">>],
       [name |-> <<"C", "i", "t", "i", "g", "r", "o", "u", "p">>,
        domain |-> <<"c", "i", "t", "i", ".", "c", "o", "m">>],
       [name |-> <<"U", "b", "e", "r">>,
        domain |-> <<"u", "b", "e", "r", ".", "c", "o", "m">>],
       [name |-> <<"A", "i", "r", "b", "n", "b">>,
        domain |-> <<"a", "i", "r", "b", "n", "b", ".", "c", "o", "m">>],
       [name |-> <<"S", "p", "o", "t", "i", "f", "y">>,
        domain |-> <<"s", "p", "o", "t", "i", "f", "y", ".", "c", "o", "m">>],
       [name |-> <<"T", "w", "i", "t", "t", "e", "r">>,
        domain |-> <<"t", "w", "i", "t", "t", "e", "r", ".", "c", "o", "m">>],
       [name |-> <<"L", "i", "n", "k", "e", "d", "I", "n">>,
        domain |-> <<"l", "i", "n", "k", "e", "d", "i", "n", ".", "c", "o", "m">>],
       [name |-> <<"W", "a", "l", "m", "a", "r", "t">>,
        domain |-> <<"w", "a", "l", "m", "a", "r", "t", ".", "c", "o", "m">>],
       [name |-> <<"T", "a", "r", "g", "e", "t">>,
        domain |-> <<"t", "a", "r", "g", "e", "t", ".", "c", "o", "m">>],
       [name |-> <<"C", "o", "s", "t", "c", "o">>,
        domain |-> <<"c", "o", "s", "t", "c", "o", ".", "c", "o", "m">>],
       [name |-> <<"H", "o", "m", "e", " ", "D", "e", "p", "o", "t">>,
        domain |-> <<"h", "o", "m", "e", "d", "e", "p", "o", "t", ".", "c", "o", "m">>],
       [name |-> <<"M", "c", "D", "o", "n", "a", "l", "d", "'", "s">>,
        domain |-> <<"m", "c", "d", "o", "n", "a", "l", "d", "s", ".", "c", "o", "m">>],
       [name |-> <<"S", "t", "a", "r", "b", "u", "c", "k", "s">>,
        domain |-> <<"s", "t", "a", "r", "b", "u", "c", "k", "s", ".", "c", "o", "m">>],
       [name |-> <<"C", "o", "c", "a", "-", "C", "o", "l", "a">>,
        domain |-> <<"c", "o", "c", "a", "-", "c", "o", "l", "a", ".", "c", "o", "m">>],
       [name |-> <<"P", "e", "p", "s", "i">>,
        domain |-> <<"p", "e", "p", "s", "i", ".", "c", "o", "m">>],
       [name |-> <<"N", "i", "k", "e">>,
        domain |-> <<"n", "i", "k", "e", ".", "c", "o", "m">>],
       [name |-> <<"A", "d", "i", "d", "a", "s">>,
        domain |-> <<"a", "d", "i", "d", "a", "s", ".", "c", "o", "m">>],
       [name |-> <<"L", "u", "l", "u", "l", "e", "m", "o", "n">>,
        domain |-> <<"l", "u", "l", "u", "l", "e", "m", "o", "n", ".", "c", "o", "m">>],
       [name |-> <<"P", "a", "t", "a", "g", "o", "n", "i", "a">>,
        domain |-> <<"p", "a", "t", "a", "g", "o", "n", "i", "a", ".", "c", "o", "m">>],
       [name |-> <<"T", "h", "e", " ", "N", "o", "r", "t", "h", " ", "F", "a", "c", "e">>,
        domain |-> <<"t", "h", "e", "n", "o", "r", "t", "h", "f", "a", "c", "e", ".", "c", "o", "m">>],
       [name |-> <<"U", "n", "d", "e", "r", " ", "A", "r", "m", "o", "u", "r">>,
        domain |-> <<"u", "n", "d", "e", "r", "a", "r", "m", "o", "u", "r", ".", "c", "o", "m">>],
       [name |-> <<"D", "i", "s", "n", "e", "y">>,
        domain |-> <<"d", "i", "s", "n", "e", "y", ".", "c", "o", "m">>],
       [name |-> <<"W", "a", "r", "n", "e", "r", " ", "B", "r", "o", "s">>,
        domain |-> <<"w", "a", "r", "n", "e", "r", "b", "r", "o", "s", ".", "c", "o", "m">>],
       [name |-> <<"B", "M", "W">>,
        domain |-> <<"b", "m", "w", ".", "c", "o", "m">>],
       [name |-> <<"M", "e", "r", "c", "e", "d", "e", "s", "-", "B", "e", "n", "z">>,
        domain |-> <<"m", "e", "r", "c", "e", "d", "e", "s", "-", "b", "e", "n", "z", ".", "c", "o", "m">>],
       [name |-> <<"V", "o", "l", "k", "s", "w", "a", "g", "e", "n">>,
        domain |-> <<"v", "o", "l", "k", "s", "w", "a", "g", "e", "n", ".", "c", "o", "m">>],
       [name |-> <<"F", "o", "r", "d">>,
        domain |-> <<"f", "o", "r", "d", ".", "c", "o", "m">>],
       [name |-> <<"G", "e", "n", "e", "r", "a", "l", " ", "M", "o", "t", "o", "r", "s">>,
        domain |-> <<"g", "m", ".", "c", "o", "m">>],
       [name |-> <<"B", "o", "e", "i", "n", "g">>,
        domain |-> <<"b", "o", "e", "i", "n", "g", ".", "c", "o", "m">>],
       [name |-> <<"A", "i", "r", "b", "u", "s">>,
        domain |-> <<"a", "i", "r", "b", "u", "s", ".", "c", "o", "m">>],
       [name |-> <<"F", "e", "d", "E", "x">>,
        domain |-> <<"f", "e", "d", "e", "x", ".", "c", "o", "m">>],
       [name |-> <<"U", "P", "S">>,
        domain |-> <<"u", "p", "s", ".", "c", "o", "m">>],
       [name |-> <<"D", "H", "L">>,
        domain |-> <<"d", "h", "l", ".", "c", "o", "m">>]
    >>

\* The directory the search runs over.
Directory == companiesDatabase

\* String.prototype.toLowerCase, on the letters the model uses.
LowerChar(c) ==
    CASE c = "A" -> "a" [] c = "B" -> "b" [] c = "C" -> "c" [] c = "D" -> "d"
      [] c = "E" -> "e" [] c = "F" -> "f" [] c = "G" -> "g" [] c = "H" -> "h"
      [] c = "I" -> "i" [] c = "J" -> "j" [] c = "K" -> "k" [] c = "L" -> "l"
      [] c = "M" -> "m" [] c = "N" -> "n" [] c = "O" -> "o" [] c = "P" -> "p"
      [] c = "Q" -> "q" [] c = "R" -> "r" [] c = "S" -> "s" [] c = "T" -> "t"
      [] c = "U" -> "u" [] c = "V" -> "v" [] c = "W" -> "w" [] c = "X" -> "x"
      [] c = "Y" -> "y" [] c = "Z" -> "z"
      [] OTHER -> c

ToLowerCase(s) == [i \in 1..Len(s) |-> LowerChar(s[i])]

IsSpace(c) == c = " "

RECURSIVE TrimStart(_)
TrimStart(s) ==
    IF s # <<>> /\ IsSpace(Head(s)) THEN TrimStart(Tail(s)) ELSE s

RECURSIVE TrimEnd(_)
TrimEnd(s) ==
    IF s # <<>> /\ IsSpace(s[Len(s)])
    THEN TrimEnd(SubSeq(s, 1, Len(s) - 1))
    ELSE s

\* String.prototype.trim
Trim(s) == TrimEnd(TrimStart(s))

\* String.prototype.includes
Includes(s, t) ==
    \E i \in 0..(Len(s) - Len(t)) : SubSeq(s, i + 1, i + Len(t)) = t

\* Mutant of Slice0: the whole array, whatever its length.
Slice0NoCap(s, n) == s

\* Array.prototype.slice(0, n)
Slice0(s, n) == SubSeq(s, 1, IF Len(s) < n THEN Len(s) ELSE n)

\* Limit of searchCompanies
SearchLimit == 10

\* Mutant of searchCompanies: only the name is searched.
searchCompaniesNameOnly(searchTerm) ==
    IF Len(searchTerm) < 1
    THEN <<>>
    ELSE LET term == Trim(ToLowerCase(searchTerm))
             Matches(company) == Includes(ToLowerCase(company.name), term)
         IN  Slice0(SelectSeq(Directory, Matches), SearchLimit)

searchCompanies(searchTerm) ==
    IF Len(searchTerm) < 1
    THEN <<>>
    ELSE LET term == Trim(ToLowerCase(searchTerm))
             Matches(company) ==
                 \/ Includes(ToLowerCase(company.name), term)
                 \/ Includes(ToLowerCase(company.domain), term)
         IN  Slice0(SelectSeq(Directory, Matches), SearchLimit)

\* ------------------------------------------------------------------ api.js
\* What the backend may answer to POST /api/company: the payload of a
\* completed job (name and ticker; the other fields are not read here).
Payloads ==
    { [name |-> AcmeCo, ticker |-> "ACME"],
      [name |-> BetaInc, ticker |-> "BETA"] }

\* The statuses of the non-2xx responses considered.
Statuses == {400, 401, 403, 404, 408, 409, 422, 429, 500, 501, 502, 503, 504}

\* The `detail` member of an error body: a message, the empty string, or
\* absent.
Details ==
    {"ESG report not found", "Company already exists", "", UndefinedStr}

\* The outcomes of fetch(): a 2xx response with a JSON payload, a non-2xx
\* response whose body parses or not and carries a detail or not, or a
\* rejection of fetch itself.
Responses ==
    { [kind |-> "ok", status |-> 200, parseable |-> TRUE,
       detail |-> UndefinedStr, data |-> p] : p \in Payloads }
    \cup
    { [kind |-> "http", status |-> st, parseable |-> pa,
       detail |-> d, data |-> [name |-> Empty, ticker |-> UndefinedStr]] :
         st \in Statuses, pa \in BOOLEAN, d \in Details }
    \cup
    { [kind |-> "network", status |-> 0, parseable |-> FALSE,
       detail |-> UndefinedStr,
       data |-> [name |-> Empty, ticker |-> UndefinedStr]] }

\* The outcomes the backend of the onboarding flow is driven with: success,
\* a 500 with a JSON body that has a detail, a 404 with a body that is not
\* JSON, and a network failure.
BackendResponses ==
    { r \in Responses :
        \/ r.kind # "http"
        \/ r.status = 500 /\ r.parseable /\ r.detail = "ESG report not found"
        \/ r.status = 404 /\ ~r.parseable /\ r.detail = UndefinedStr }

\* JavaScript truthiness of a string-valued expression.
Truthy(s) == s \notin {"", Null, UndefinedStr}

\* a || b
OrElse(a, b) == IF Truthy(a) THEN a ELSE b

\* `HTTP error! status: ${response.status}`
HttpErrorMessage(status) == "HTTP error! status: " \o ToString(status)

\* addCompany: the value it resolves to, or the message of the Error it
\* throws.
addCompany(response) ==
    IF response.kind = "network"
    THEN [ok |-> FALSE, message |-> "Failed to fetch", data |-> response.data]
    ELSE IF response.kind # "ok"
    THEN LET errorDetail == IF response.parseable THEN response.detail
                            ELSE "Unknown error"
         IN  [ok |-> FALSE,
              message |-> OrElse(errorDetail, HttpErrorMessage(response.status)),
              data |-> response.data]
    ELSE [ok |-> TRUE, message |-> Null, data |-> response.data]

\* ------------------------------------------------------------------- state
VARIABLES
    \* App and SignIn
    isAuthenticated,    \* useState(false)
    authStorage,        \* localStorage 'isAuthenticated', or Null
    signInError,        \* useState('') of SignIn
    epoch,              \* number of the Dashboard instance mounted last
    \* Dashboard
    companies,          \* useState([]): the portfolio list
    showCompanySearch,  \* useState(false): the popup is mounted
    alertMessage,       \* name in the last alert() of Dashboard, or NullName
    portfolioStorage,   \* localStorage 'portfolioCompanies', <<>> when absent
    \* CompanySearchPopup
    searchTerm,         \* useState('')
    results,            \* useState([])
    isLoading,          \* useState(false)
    isAdding,           \* useState(false)
    addingCompany,      \* useState(null)
    error,              \* useState(null)
    currentStep,        \* useState(0)
    \* scheduled activities and messages in flight
    debounceTimer,      \* pending 300 ms search timers: the terms they captured
    stepInterval,       \* jobs whose 10 s progress interval is running
    requests,           \* addCompany requests sent and not yet answered
    settleTimer,        \* pending 500 ms timers of succeeded jobs, with results
    \* history
    lastEvent,          \* the last event handled, the name it submits (or
                        \* NullName) and isAdding before it
    handoffs,           \* payloads passed to Dashboard.handleAddCompany
    tickerOf,           \* for each entry of the list, the ticker of its payload
    jobs,               \* number of jobs submitted; a job is named by its number
    lastSent,           \* the body of the last addCompany request sent
    thrown,             \* the message of the Error thrown last by addCompany
    \* pure functions: an argument and the value returned for it
    cardMounted,        \* CardPopup is rendered by its parent
    cardTicker,         \* the ticker prop of CardPopup
    companyData,        \* CardPopup: companyData
    loading,            \* CardPopup: loading
    cardError,          \* CardPopup: error
    cardCurrentStep,    \* CardPopup: currentStep
    selectedMetric,     \* CardPopup: selectedMetric
    effectRun,          \* the number of runs of the effect on [ticker]
    cardInterval,       \* the effect runs whose stepInterval is running
    fetches,            \* the fetchCompanyData calls that have not settled
    cardThrown,         \* the message of the Error fetchCompanyData threw last
    cardEvent,          \* the last step of CardPopup
    fnInput,
    fnOutput

appVars == <<isAuthenticated, authStorage, signInError, epoch>>
dashboardVars == <<companies, showCompanySearch, alertMessage>>
popupVars == <<searchTerm, results, isLoading, isAdding, addingCompany,
               error, currentStep>>
jobVars == <<isAdding, addingCompany, error, currentStep, stepInterval,
             requests, settleTimer>>
historyVars == <<handoffs, tickerOf, jobs, lastSent>>
\* What the onboarding workflow never touches.
\* The state of CardPopup and of the fetches of its effect.
cardVars ==
    <<cardMounted, cardTicker, companyData, loading, cardError,
      cardCurrentStep, selectedMetric, effectRun, cardInterval, fetches,
      cardThrown, cardEvent>>
restVars == <<fnInput, fnOutput, cardVars>>
\* The state of the onboarding workflow and of the views around it.
onboardingVars ==
    <<isAuthenticated, authStorage, signInError, epoch, companies,
      showCompanySearch, alertMessage, portfolioStorage, searchTerm, results,
      isLoading, isAdding, addingCompany, error, currentStep, debounceTimer,
      stepInterval, requests, settleTimer, lastEvent, handoffs, tickerOf,
      jobs, lastSent, thrown>>
vars == <<onboardingVars, restVars>>

\* What the user may type into the search input.
Terms ==
    { Empty,
      <<" ">>,
      <<" ">> \o AcmeCo \o <<" ">>,
      <<"g", "o", "o">> }

\* What the user may type into the fields of the sign-in form.
Credentials == {"admin", "guest"}

\* The most effect runs of CardPopup in a behaviour.
MaxFetches == 3

\* The last step the interval of CardPopup may reach.
LastLoadingStep == 2

\* The step shown as "Company Added".
TerminalStep == 2
\* The last step the interval may reach.
LastWaitingStep == 1

Event(kind, target) ==
    [kind |-> kind, target |-> target, wasAdding |-> isAdding]

\* An event is handled: it is recorded, and nothing outside the workflow moves.
Handled(kind, target) ==
    /\ lastEvent' = Event(kind, target)
    /\ UNCHANGED restVars

SubmitEvents == {"clickAdd", "clickAddCustom", "enter"}

\* No argument, no value.
NoValue == "none"

InitOnboarding ==
    /\ isAuthenticated = FALSE
    /\ authStorage = Null
    /\ signInError = ""
    /\ epoch = 0
    /\ companies = <<>>
    /\ showCompanySearch = FALSE
    /\ alertMessage = NullName
    /\ portfolioStorage = <<>>
    /\ searchTerm = Empty
    /\ results = <<>>
    /\ isLoading = FALSE
    /\ isAdding = FALSE
    /\ addingCompany = NullName
    /\ error = Null
    /\ currentStep = 0
    /\ debounceTimer = {}
    /\ stepInterval = {}
    /\ requests = <<>>
    /\ settleTimer = <<>>
    /\ lastEvent = [kind |-> "init", target |-> NullName, wasAdding |-> FALSE]
    /\ handoffs = <<>>
    /\ tickerOf = <<>>
    /\ jobs = 0
    /\ lastSent = [company_name |-> NullName, ticker |-> Null]
    /\ thrown = Null

\* ------------------------------------------------- CardPopup, at the start
\* companyData and selectedMetric when they are null.
NullData == [ticker |-> Null]
NullMetric == [metricKey |-> NullName, sources |-> <<>>]

\* The useState initial values of CardPopup.
CardInitialState ==
    /\ companyData = NullData
    /\ loading = TRUE
    /\ cardError = Null
    /\ cardCurrentStep = 0
    /\ selectedMetric = NullMetric

InitCard ==
    /\ cardMounted = FALSE
    /\ cardTicker = UndefinedStr
    /\ CardInitialState
    /\ effectRun = 0
    /\ cardInterval = {}
    /\ fetches = {}
    /\ cardThrown = Null
    /\ cardEvent = "init"

\* fnOutput before the function is called.
NotCalled == [called |-> FALSE]

\* fnOutput once the function has returned `value`.
Returned(value) == [called |-> TRUE, value |-> value]

InitRest ==
    /\ fnInput = NoValue
    /\ fnOutput = NotCalled
    /\ InitCard

Init == InitOnboarding /\ InitRest

\* -------------------------------------------------------------- Dashboard
\* company.domain of the object handed to handleAddCompany, or of an entry
PropDomain(company) ==
    IF "domain" \in DOMAIN company THEN company.domain ELSE Undefined

\* The least element in the place of the greatest.
LeastOf(S) == CHOOSE m \in S : \A x \in S : m <= x

\* Math.max(...)
MaxOf(S) == CHOOSE m \in S : \A x \in S : x <= m

\* JSON.parse(JSON.stringify(list)): a property whose value is undefined is
\* not written.
JsonRoundTrip(list) ==
    [i \in 1..Len(list) |->
        IF PropDomain(list[i]) = Undefined
        THEN [id |-> list[i].id, name |-> list[i].name]
        ELSE list[i]]

\* The effect on [companies]: the list is saved when it is not empty.
SaveEffect(list, stored) ==
    IF Len(list) > 0 THEN JsonRoundTrip(list) ELSE stored

\* handleAddCompany putting the new company at the head of the list.
DashboardHandleAddCompanyAtHead(company, snapshot, mounted) ==
    LET exists == \E i \in 1..Len(snapshot) :
                      PropDomain(snapshot[i]) = PropDomain(company)
        newId == IF Len(snapshot) > 0
                 THEN MaxOf({snapshot[i].id : i \in 1..Len(snapshot)}) + 1
                 ELSE 1
        newCompany == [id |-> newId, name |-> company.name,
                       domain |-> PropDomain(company)]
    IN  /\ handoffs' = Append(handoffs, company)
        /\ IF exists
           THEN /\ alertMessage' = company.name
                /\ UNCHANGED <<companies, tickerOf, portfolioStorage>>
           ELSE IF mounted
           THEN /\ companies' = <<newCompany>> \o snapshot
                /\ tickerOf' = <<company.ticker>> \o tickerOf
                /\ portfolioStorage' =
                       SaveEffect(<<newCompany>> \o snapshot,
                                  portfolioStorage)
                /\ UNCHANGED alertMessage
           ELSE UNCHANGED <<companies, tickerOf, portfolioStorage,
                            alertMessage>>

\* handleAddCompany of Dashboard, called as onAddCompany(result).  The
\* function is the one of the render the popup got it from: it reads the
\* list of that render (snapshot), and its setCompanies does nothing once
\* that Dashboard is unmounted.
DashboardHandleAddCompany(company, snapshot, mounted) ==
    LET exists == \E i \in 1..Len(snapshot) :
                      PropDomain(snapshot[i]) = PropDomain(company)
        newId == IF Len(snapshot) > 0
                 THEN MaxOf({snapshot[i].id : i \in 1..Len(snapshot)}) + 1
                 ELSE 1
        newCompany == [id |-> newId, name |-> company.name,
                       domain |-> PropDomain(company)]
    IN  /\ handoffs' = Append(handoffs, company)
        /\ IF exists
           THEN /\ alertMessage' = company.name
                /\ UNCHANGED <<companies, tickerOf, portfolioStorage>>
           ELSE IF mounted
           THEN /\ companies' = Append(snapshot, newCompany)
                /\ tickerOf' = Append(tickerOf, company.ticker)
                /\ portfolioStorage' =
                       SaveEffect(Append(snapshot, newCompany),
                                  portfolioStorage)
                /\ UNCHANGED alertMessage
           ELSE UNCHANGED <<companies, tickerOf, portfolioStorage,
                            alertMessage>>

\* The popup unmounts: its state is dropped and the effect cleanup clears
\* the debounce timer.  Nothing clears stepInterval or the settle timer.
PopupUnmount ==
    /\ searchTerm' = Empty
    /\ results' = <<>>
    /\ isLoading' = FALSE
    /\ isAdding' = FALSE
    /\ addingCompany' = NullName
    /\ error' = Null
    /\ currentStep' = 0
    /\ debounceTimer' = {}

\* setShowCompanySearch(true): the popup mounts with its initial state and
\* its effects run (the debounce timer is set for the empty term).
OpenCompanySearch ==
    /\ isAuthenticated
    /\ ~showCompanySearch
    /\ showCompanySearch' = TRUE
    /\ debounceTimer' = {Empty}
    /\ Handled("open", NullName)
    /\ UNCHANGED <<appVars, companies, alertMessage, portfolioStorage,
                   popupVars, stepInterval, requests, settleTimer,
                   historyVars, thrown>>

\* onClose: setShowCompanySearch(false).
OnClose ==
    /\ showCompanySearch' = FALSE
    /\ PopupUnmount

\* ------------------------------------------------------- App and SignIn
\* handleSubmit of SignIn, and handleSignIn of App behind it.  Dashboard
\* mounts and its effect loads the saved list.
SignInSubmit(username, password) ==
    /\ ~isAuthenticated
    /\ IF username = "admin" /\ password = "admin"
       THEN /\ epoch < MaxSessions
            /\ isAuthenticated' = TRUE
            /\ authStorage' = "true"
            /\ signInError' = ""
            /\ epoch' = epoch + 1
            /\ companies' = portfolioStorage
       ELSE /\ signInError' = "Invalid username or password"
            /\ UNCHANGED <<isAuthenticated, authStorage, epoch, companies>>
    /\ Handled("signIn", <<username, password>>)
    /\ UNCHANGED <<showCompanySearch, alertMessage, portfolioStorage,
                   popupVars, debounceTimer, stepInterval, requests,
                   settleTimer, historyVars, thrown>>

\* Click on Sign Out in the header of Dashboard: handleSignOut of App.
\* Dashboard unmounts, and the popup with it when it is open.
SignOut ==
    /\ isAuthenticated
    /\ isAuthenticated' = FALSE
    /\ authStorage' = Null
    /\ signInError' = ""
    /\ companies' = <<>>
    /\ showCompanySearch' = FALSE
    /\ PopupUnmount
    /\ Handled("signOut", NullName)
    /\ UNCHANGED <<epoch, alertMessage, portfolioStorage, stepInterval,
                   requests, settleTimer, historyVars, thrown>>

\* ------------------------------------------------------ CompanySearchPopup
\* What the render shows of the controls, from the state of the last render.
InputDisabled == isAdding
CloseButtonDisabled == isAdding
AddButtonsRendered == ~isAdding /\ Len(results) > 0
AddCustomButtonRendered ==
    /\ ~isAdding
    /\ Len(Trim(searchTerm)) > 0
    /\ Len(results) = 0
    /\ ~isLoading

\* company.ticker of a directory entry
PropTicker(company) ==
    IF "ticker" \in DOMAIN company THEN company.ticker ELSE UndefinedStr

\* The popup that started the job is still mounted: the state setters of
\* the job's callbacks act on it.  (A popup closes only with no job of its
\* own left, so within one Dashboard the job is of the popup that is open.)
Live(job) == isAuthenticated /\ job.owner = epoch /\ showCompanySearch

\* The start of a job without setError(null).
StartJobKeepsError(name, ticker) ==
    /\ isAdding' = TRUE
    /\ addingCompany' = name
    /\ UNCHANGED error
    /\ currentStep' = 0
    /\ stepInterval' = stepInterval \cup {[job |-> jobs + 1, owner |-> epoch]}
    /\ requests' = Append(requests, [job |-> jobs + 1, owner |-> epoch,
                                      snapshot |-> companies,
                                      company_name |-> name,
                                      ticker |-> ticker])
    /\ jobs' = jobs + 1
    /\ lastSent' = [company_name |-> name, ticker |-> ticker]
    /\ UNCHANGED <<appVars, dashboardVars, portfolioStorage, searchTerm,
                   results, isLoading, debounceTimer, settleTimer, handoffs,
                   tickerOf, thrown>>

\* The part of both handlers from setIsAdding(true) to the await: the state
\* is set, the interval is started and the request is sent.
StartJob(name, ticker) ==
    /\ isAdding' = TRUE
    /\ addingCompany' = name
    /\ error' = Null
    /\ currentStep' = 0
    /\ stepInterval' = stepInterval \cup {[job |-> jobs + 1, owner |-> epoch]}
    /\ requests' = Append(requests, [job |-> jobs + 1, owner |-> epoch,
                                      snapshot |-> companies,
                                      company_name |-> name,
                                      ticker |-> ticker])
    /\ jobs' = jobs + 1
    /\ lastSent' = [company_name |-> name, ticker |-> ticker]
    /\ UNCHANGED <<appVars, dashboardVars, portfolioStorage, searchTerm,
                   results, isLoading, debounceTimer, settleTimer, handoffs,
                   tickerOf, thrown>>

\* handleAddCompany, up to the await.
handleAddCompany(company) ==
    StartJob(company.name, OrElse(PropTicker(company), Null))

\* handleAddCustomCompany, up to the await.
handleAddCustomCompany ==
    IF Trim(searchTerm) = Empty
    THEN /\ error' = "Please enter a company name"
         /\ UNCHANGED <<appVars, dashboardVars, portfolioStorage, searchTerm,
                        results, isLoading, isAdding, addingCompany,
                        currentStep, debounceTimer, stepInterval, requests,
                        settleTimer, historyVars, thrown>>
    ELSE StartJob(Trim(searchTerm), Null)

\* Mutant of StepAfterTick: the interval may reach the terminal step.
StepAfterTickToTerminal(prev) ==
    IF prev < TerminalStep THEN prev + 1 ELSE prev

\* The callback of setInterval: setCurrentStep(prev => ...).
StepAfterTick(prev) == IF prev < LastWaitingStep THEN prev + 1 ELSE prev

StepIntervalTick(timer) ==
    /\ timer \in stepInterval
    /\ IF Live(timer)
       THEN /\ currentStep' = StepAfterTick(currentStep)
            /\ Handled("tick", NullName)
       ELSE /\ UNCHANGED currentStep
            /\ Handled("orphanTick", NullName)
    /\ UNCHANGED <<appVars, dashboardVars, portfolioStorage, searchTerm,
                   results, isLoading, isAdding, addingCompany, error,
                   debounceTimer, stepInterval, requests, settleTimer,
                   historyVars, thrown>>

RemoveAt(s, i) == SubSeq(s, 1, i - 1) \o SubSeq(s, i + 1, Len(s))

\* Mutant of ClearInterval: the interval is left running.
ClearIntervalForgets(request) == stepInterval

\* clearInterval(stepInterval) of the job of a request
ClearInterval(request) ==
    stepInterval \ {[job |-> request.job, owner |-> request.owner]}

\* The await returns: the try block after it.  (handleAddCustomCompany
\* repeats the try and catch blocks of handleAddCompany word for word.)
AddCompanyResolved(i, response) ==
    /\ i \in 1..Len(requests)
    /\ addCompany(response).ok
    /\ requests' = RemoveAt(requests, i)
    /\ stepInterval' = ClearInterval(requests[i])
    /\ settleTimer' = Append(settleTimer,
                             [job |-> requests[i].job,
                              owner |-> requests[i].owner,
                              snapshot |-> requests[i].snapshot,
                              result |-> addCompany(response).data])
    /\ IF Live(requests[i])
       THEN /\ currentStep' = TerminalStep
            /\ Handled("resolved", NullName)
       ELSE /\ UNCHANGED currentStep
            /\ Handled("orphanResolved", NullName)
    /\ UNCHANGED <<appVars, dashboardVars, portfolioStorage, searchTerm,
                   results, isLoading, isAdding, addingCompany, error,
                   debounceTimer, historyVars, thrown>>

\* Mutant of CatchBlock: the catch block without setCurrentStep(0).
CatchBlockNoReset(message) ==
    /\ error' = OrElse(message, "Failed to add company. Please try again.")
    /\ isAdding' = FALSE
    /\ addingCompany' = NullName
    /\ UNCHANGED currentStep
    /\ UNCHANGED <<companies, portfolioStorage>>

\* Mutant of CatchBlock: the catch block adds the company it failed to
\* onboard to the list of the Dashboard.
CatchBlockAddsAnyway(message) ==
    /\ error' = OrElse(message, "Failed to add company. Please try again.")
    /\ isAdding' = FALSE
    /\ addingCompany' = NullName
    /\ currentStep' = 0
    /\ companies' = Append(companies, [id |-> Len(companies) + 1,
                                       name |-> addingCompany,
                                       domain |-> Undefined])
    /\ UNCHANGED portfolioStorage

\* Mutant of CatchBlock: the message of the error is dropped for the fixed
\* text.
CatchBlockFixedText(message) ==
    /\ error' = "Failed to add company. Please try again."
    /\ isAdding' = FALSE
    /\ addingCompany' = NullName
    /\ currentStep' = 0
    /\ UNCHANGED <<companies, portfolioStorage>>

\* The catch block without setIsAdding(false).
CatchBlockStaysAdding(message) ==
    /\ error' = OrElse(message, "Failed to add company. Please try again.")
    /\ UNCHANGED isAdding
    /\ addingCompany' = NullName
    /\ currentStep' = 0
    /\ UNCHANGED <<companies, portfolioStorage>>

\* The catch block: four state setters of the popup; onAddCompany is not
\* called, so the list of the Dashboard and its saved copy stay.
CatchBlock(message) ==
    /\ error' = OrElse(message, "Failed to add company. Please try again.")
    /\ isAdding' = FALSE
    /\ addingCompany' = NullName
    /\ currentStep' = 0
    /\ UNCHANGED <<companies, portfolioStorage>>

\* The await throws: the catch block.
AddCompanyRejected(i, response) ==
    /\ i \in 1..Len(requests)
    /\ ~addCompany(response).ok
    /\ requests' = RemoveAt(requests, i)
    /\ stepInterval' = ClearInterval(requests[i])
    /\ thrown' = addCompany(response).message
    /\ IF Live(requests[i])
       THEN /\ CatchBlock(addCompany(response).message)
            /\ Handled("rejected", NullName)
       ELSE /\ UNCHANGED <<error, isAdding, addingCompany, currentStep,
                            companies, portfolioStorage>>
            /\ Handled("orphanRejected", NullName)
    /\ UNCHANGED <<appVars, showCompanySearch, alertMessage, searchTerm,
                   results, isLoading, debounceTimer, settleTimer,
                   historyVars>>

\* Mutant of TimeoutCallback: the callback closes without onAddCompany(result).
TimeoutCallbackNoHandoff(timer) ==
    /\ OnClose
    /\ UNCHANGED <<companies, alertMessage, portfolioStorage, handoffs,
                   tickerOf>>

\* The callback of the 500 ms timer, its popup being mounted:
\* onAddCompany(result); onClose().
TimeoutCallback(timer) ==
    /\ DashboardHandleAddCompany(timer.result, timer.snapshot, TRUE)
    /\ OnClose

\* The 500 ms timer of a succeeded job fires.  Once the Dashboard of the job
\* is unmounted the two calls set no state; the alert of handleAddCompany
\* is still shown.
SettleTimeout(k) ==
    /\ k \in 1..Len(settleTimer)
    /\ settleTimer' = RemoveAt(settleTimer, k)
    /\ IF Live(settleTimer[k])
       THEN /\ TimeoutCallback(settleTimer[k])
            /\ Handled("settled", NullName)
       ELSE /\ DashboardHandleAddCompany(settleTimer[k].result,
                                         settleTimer[k].snapshot, FALSE)
            /\ UNCHANGED <<showCompanySearch, popupVars, debounceTimer>>
            /\ Handled("orphanSettled", NullName)
    /\ UNCHANGED <<appVars, stepInterval, requests, jobs, lastSent, thrown>>

\* Mutant of DebounceEffect: the effect without its cleanup.
DebounceEffectNoCleanup(timers, value) == timers \cup {value}

\* The effect on [searchTerm]: the cleanup of the previous run clears its
\* timer, then a timer is set that captures the new term.
DebounceEffect(timers, value) == {value}

\* onChange of the search input; the effect on searchTerm re-arms the timer.
ChangeSearchTerm(value) ==
    /\ showCompanySearch
    /\ ~InputDisabled
    /\ value # searchTerm
    /\ searchTerm' = value
    /\ error' = Null
    /\ debounceTimer' = DebounceEffect(debounceTimer, value)
    /\ Handled("change", NullName)
    /\ UNCHANGED <<appVars, dashboardVars, portfolioStorage, results,
                   isLoading, isAdding, addingCompany, currentStep,
                   stepInterval, requests, settleTimer, historyVars, thrown>>

\* The callback calling searchCompanies whatever the term.
DebounceTimeoutSearchesAlways(term) ==
    /\ term \in debounceTimer
    /\ debounceTimer' = debounceTimer \ {term}
    /\ results' = searchCompanies(term)
    /\ isLoading' = FALSE
    /\ Handled("debounce", term)
    /\ UNCHANGED <<appVars, dashboardVars, portfolioStorage, searchTerm,
                   isAdding, addingCompany, error, currentStep, stepInterval,
                   requests, settleTimer, historyVars, thrown>>

\* The callback of a debounce timer, for the term it captured.
DebounceTimeout(term) ==
    /\ term \in debounceTimer
    /\ debounceTimer' = debounceTimer \ {term}
    /\ IF Len(Trim(term)) > 0
       THEN results' = searchCompanies(term)
       ELSE results' = <<>>
    /\ isLoading' = FALSE
    /\ Handled("debounce", term)
    /\ UNCHANGED <<appVars, dashboardVars, portfolioStorage, searchTerm,
                   isAdding, addingCompany, error, currentStep, stepInterval,
                   requests, settleTimer, historyVars, thrown>>

\* Click on the Add button of a suggested company.
ClickAdd(i) ==
    /\ showCompanySearch
    /\ AddButtonsRendered
    /\ i \in 1..Len(results)
    /\ jobs < MaxJobs
    /\ handleAddCompany(results[i])
    /\ Handled("clickAdd", results[i].name)

\* Click on the "Add ... Anyway" button.
ClickAddCustom ==
    /\ showCompanySearch
    /\ AddCustomButtonRendered
    /\ jobs < MaxJobs
    /\ handleAddCustomCompany
    /\ Handled("clickAddCustom", Trim(searchTerm))

\* Mutant of EnterSubmits: onKeyDown without its !isAdding test.
EnterSubmitsUnguarded == Trim(searchTerm) # Empty

\* The condition of onKeyDown, the key being Enter.
EnterSubmits == ~isAdding /\ Trim(searchTerm) # Empty

\* Enter pressed in the search input.  The handler is run in every state of
\* the open popup, so that its own !isAdding test decides, not only the
\* disabled attribute of the input.
KeyDownEnter ==
    /\ showCompanySearch
    /\ EnterSubmits => jobs < MaxJobs
    /\ IF EnterSubmits
       THEN handleAddCustomCompany
       ELSE UNCHANGED <<appVars, dashboardVars, portfolioStorage, popupVars,
                        debounceTimer, stepInterval, requests, settleTimer,
                        historyVars, thrown>>
    /\ Handled("enter", Trim(searchTerm))

\* Mutant of OverlayCloses: handleOverlayClick without its !isAdding test.
OverlayClosesAlways == TRUE

\* The condition of handleOverlayClick, the click being on the overlay.
OverlayCloses == ~isAdding

\* Click on the overlay around the popup.
OverlayClick ==
    /\ showCompanySearch
    /\ IF OverlayCloses
       THEN OnClose /\ UNCHANGED <<companies, alertMessage>>
       ELSE UNCHANGED <<dashboardVars, popupVars, debounceTimer>>
    /\ Handled("overlayClick", NullName)
    /\ UNCHANGED <<appVars, portfolioStorage, stepInterval, requests,
                   settleTimer, historyVars, thrown>>

\* Click on the close button.
CloseButtonClick ==
    /\ showCompanySearch
    /\ ~CloseButtonDisabled
    /\ OnClose
    /\ Handled("closeButton", NullName)
    /\ UNCHANGED <<appVars, companies, alertMessage, portfolioStorage,
                   stepInterval, requests, settleTimer, historyVars, thrown>>

Next ==
    \/ \E username \in Credentials, password \in Credentials :
           SignInSubmit(username, password)
    \/ SignOut
    \/ OpenCompanySearch
    \/ \E value \in Terms : ChangeSearchTerm(value)
    \/ \E term \in Terms : DebounceTimeout(term)
    \/ \E i \in 1..SearchLimit : ClickAdd(i)
    \/ ClickAddCustom
    \/ KeyDownEnter
    \/ \E timer \in stepInterval : StepIntervalTick(timer)
    \/ \E i \in 1..MaxJobs, response \in BackendResponses :
           AddCompanyResolved(i, response)
    \/ \E i \in 1..MaxJobs, response \in BackendResponses :
           AddCompanyRejected(i, response)
    \/ \E k \in 1..MaxJobs : SettleTimeout(k)
    \/ OverlayClick
    \/ CloseButtonClick

Spec == Init /\ [][Next]_vars

\* ---------------------------------------------------------------- CardPopup
\* The tickers a parent passes as the `ticker` prop.
Tickers == {"ACME", "BETA"}

\* Two metric keys, as the characters the labels are made from.
Co2Target == <<"c", "o", "2", "_", "t", "a", "r", "g", "e", "t">>

WaterUse == <<"w", "a", "t", "e", "r", "_", "u", "s", "e">>

\* What GET /api/company/{ticker} may answer with status 200: the full
\* record of the company, with the sources of the company for one metric
\* and none for the other, or a record without promise, truth and
\* metric_sources. An object is the sequence of its entries but for
\* metric_sources, which is only ever read by key.
DetailPayloads(t) ==
    { [name |-> t, ticker |-> t, esg_report |-> "report.pdf",
       promise |-> << [key |-> Co2Target, value |-> "net zero 2040"] >>,
       truth |-> << [key |-> Co2Target, value |-> TRUE],
                    [key |-> WaterUse, value |-> FALSE] >>,
       metric_sources |->
           (Co2Target :> << [url |-> "https://example.org/" \o t,
                             description |-> ""] >>)
           @@ (WaterUse :> <<>>)],
      [name |-> t, ticker |-> t, esg_report |-> "report.pdf"] }

\* The outcomes of fetch() for GET /api/company/{ticker}.
DetailResponses(t) ==
    { [kind |-> "ok", status |-> 200, data |-> d] : d \in DetailPayloads(t) }
    \cup
    { [kind |-> "http", status |-> st, data |-> NullData] : st \in {404, 500} }
    \cup
    { [kind |-> "network", status |-> 0, data |-> NullData] }

\* fetchCompanyData without the test of the status 404.
fetchCompanyDataNo404(t, response) ==
    IF response.kind = "network"
    THEN [ok |-> FALSE, message |-> "Failed to fetch", data |-> NullData]
    ELSE IF response.kind # "ok"
    THEN [ok |-> FALSE,
          message |-> HttpErrorMessage(response.status),
          data |-> NullData]
    ELSE [ok |-> TRUE, message |-> Null, data |-> response.data]

\* fetchCompanyData: the value it resolves to, or the message of the Error
\* it throws.
fetchCompanyData(t, response) ==
    IF response.kind = "network"
    THEN [ok |-> FALSE, message |-> "Failed to fetch", data |-> NullData]
    ELSE IF response.kind # "ok"
    THEN [ok |-> FALSE,
          message |-> IF response.status = 404
                      THEN "Company with ticker " \o t \o " not found"
                      ELSE HttpErrorMessage(response.status),
          data |-> NullData]
    ELSE [ok |-> TRUE, message |-> Null, data |-> response.data]

\* A card action leaves the onboarding workflow alone.
CardHandled(kind) ==
    /\ cardEvent' = kind
    /\ UNCHANGED <<onboardingVars, fnInput, fnOutput>>

\* isMounted of the effect run: true until the cleanup of the run, which
\* React calls before the next run and at unmount.
IsMounted(run) == cardMounted /\ run = effectRun

\* The effect on [ticker]: the cleanup of the previous run (isMounted =
\* false, clearInterval), then loadCompanyData() up to its await.  `data` is
\* companyData of the render the effect belongs to.
LoadCompanyData(t, data) ==
    /\ effectRun' = effectRun + 1
    /\ IF t = UndefinedStr
       THEN /\ cardInterval' = {}
            /\ UNCHANGED <<loading, cardError, cardCurrentStep, fetches>>
       ELSE /\ loading' = TRUE
            /\ cardError' = Null
            /\ cardCurrentStep' = 0
            /\ cardInterval' = {effectRun + 1}
            /\ fetches' = fetches \cup {[run |-> effectRun + 1, ticker |-> t,
                                         before |-> data]}

\* The parent renders <CardPopup ticker={t} />.
CardMount(t) ==
    /\ ~cardMounted
    /\ effectRun < MaxFetches
    /\ cardMounted' = TRUE
    /\ cardTicker' = t
    /\ LoadCompanyData(t, companyData)
    /\ UNCHANGED <<companyData, selectedMetric, cardThrown>>
    /\ CardHandled("mount")

\* The parent passes another ticker to the CardPopup it shows; the state of
\* the component stays.
CardChangeTicker(t) ==
    /\ cardMounted
    /\ t # cardTicker
    /\ effectRun < MaxFetches
    /\ cardTicker' = t
    /\ LoadCompanyData(t, companyData)
    /\ UNCHANGED <<cardMounted, companyData, selectedMetric, cardThrown>>
    /\ CardHandled("ticker")

\* The parent stops rendering CardPopup (after onClose): the cleanup of the
\* effect runs and the state of the component is dropped.
CardUnmount ==
    /\ cardMounted
    /\ cardMounted' = FALSE
    /\ cardTicker' = UndefinedStr
    /\ companyData' = NullData
    /\ loading' = TRUE
    /\ cardError' = Null
    /\ cardCurrentStep' = 0
    /\ selectedMetric' = NullMetric
    /\ cardInterval' = {}
    /\ UNCHANGED <<effectRun, fetches, cardThrown>>
    /\ CardHandled("unmount")

\* The callback counting one step further than the last loading step.
CardStepAfterTickPastLast(prev) ==
    IF prev < LastLoadingStep + 1 THEN prev + 1 ELSE prev

\* The callback of the setInterval of CardPopup.
CardStepAfterTick(prev) == IF prev < LastLoadingStep THEN prev + 1 ELSE prev

CardIntervalTick(run) ==
    /\ run \in cardInterval
    /\ IF IsMounted(run)
       THEN cardCurrentStep' = CardStepAfterTick(cardCurrentStep)
       ELSE UNCHANGED cardCurrentStep
    /\ UNCHANGED <<cardMounted, cardTicker, companyData, loading, cardError,
                   selectedMetric, effectRun, cardInterval, fetches,
                   cardThrown>>
    /\ CardHandled("tick")

\* The try and finally blocks without the isMounted guard: the setters of
\* a response act on the component whenever it is still mounted.
CardTryBlockUnguarded(mounted, data) ==
    IF cardMounted
    THEN /\ companyData' = data
         /\ loading' = FALSE
         /\ cardCurrentStep' = 0
    ELSE UNCHANGED <<companyData, loading, cardCurrentStep>>

\* The try block after the await, and the finally block:
\* setCurrentStep(3); setCompanyData(data); then setLoading(false);
\* setCurrentStep(0), all behind isMounted.
CardTryBlock(mounted, data) ==
    IF mounted
    THEN /\ companyData' = data
         /\ loading' = FALSE
         /\ cardCurrentStep' = 0
    ELSE UNCHANGED <<companyData, loading, cardCurrentStep>>

\* fetchCompanyData resolves for the fetch of an effect run.
CardFetchResolved(fetch, response) ==
    /\ fetch \in fetches
    /\ fetchCompanyData(fetch.ticker, response).ok
    /\ fetches' = fetches \ {fetch}
    /\ cardInterval' = cardInterval \ {fetch.run}
    /\ CardTryBlock(IsMounted(fetch.run),
                    fetchCompanyData(fetch.ticker, response).data)
    /\ UNCHANGED <<cardMounted, cardTicker, cardError, selectedMetric,
                   effectRun, cardThrown>>
    /\ CardHandled(IF IsMounted(fetch.run) THEN "fetchResolved"
                   ELSE "staleResolved")

\* Mutant of CardCatchBlock: the failure clears the data on display.
CardCatchBlockClearsData(mounted, message) ==
    IF mounted
    THEN /\ cardError' = OrElse(message, "Failed to load company data")
         /\ loading' = FALSE
         /\ cardCurrentStep' = 0
         /\ companyData' = NullData
    ELSE UNCHANGED <<cardError, loading, cardCurrentStep, companyData>>

\* The catch block and the finally block: setError(err.message || ...);
\* then setLoading(false); setCurrentStep(0), all behind isMounted.
CardCatchBlock(mounted, message) ==
    IF mounted
    THEN /\ cardError' = OrElse(message, "Failed to load company data")
         /\ loading' = FALSE
         /\ cardCurrentStep' = 0
         /\ UNCHANGED companyData
    ELSE UNCHANGED <<cardError, loading, cardCurrentStep, companyData>>

\* fetchCompanyData throws for the fetch of an effect run.
CardFetchRejected(fetch, response) ==
    /\ fetch \in fetches
    /\ ~fetchCompanyData(fetch.ticker, response).ok
    /\ fetches' = fetches \ {fetch}
    /\ cardInterval' = cardInterval \ {fetch.run}
    /\ cardThrown' = fetchCompanyData(fetch.ticker, response).message
    /\ CardCatchBlock(IsMounted(fetch.run),
                      fetchCompanyData(fetch.ticker, response).message)
    /\ UNCHANGED <<cardMounted, cardTicker, selectedMetric, effectRun>>
    /\ CardHandled(IF IsMounted(fetch.run) THEN "fetchRejected"
                   ELSE "staleRejected")

\* getSourcesForMetric falling back on the sources of some other metric.
getSourcesForMetricOfAny(metricKey) ==
    IF "metric_sources" \notin DOMAIN companyData
    THEN <<>>
    ELSE IF metricKey \notin DOMAIN companyData.metric_sources
    THEN IF DOMAIN companyData.metric_sources = {}
         THEN <<>>
         ELSE companyData.metric_sources[
                  CHOOSE k \in DOMAIN companyData.metric_sources : TRUE]
    ELSE companyData.metric_sources[metricKey]

\* companyData?.metric_sources[metricKey] || []
getSourcesForMetric(metricKey) ==
    IF "metric_sources" \notin DOMAIN companyData
    THEN <<>>
    ELSE IF metricKey \notin DOMAIN companyData.metric_sources
    THEN <<>>
    ELSE companyData.metric_sources[metricKey]

\* The render shows the data: loading ? ... : error ? ... : companyData ? ...
DataViewRendered ==
    /\ cardMounted
    /\ cardTicker # UndefinedStr
    /\ ~loading
    /\ cardError = Null
    /\ companyData # NullData

\* The keys of the truth list the render shows, when it shows the data.
RenderedTruthKeys ==
    IF DataViewRendered /\ "truth" \in DOMAIN companyData
    THEN {companyData.truth[i].key : i \in 1..Len(companyData.truth)}
    ELSE {}

\* Click on a line of the truth list: onClick calls handleMetricClick when
\* the metric has sources.
CardMetricClick(metricKey) ==
    /\ metricKey \in RenderedTruthKeys
    /\ IF Len(getSourcesForMetric(metricKey)) > 0
       THEN selectedMetric' = [metricKey |-> metricKey,
                               sources |-> getSourcesForMetric(metricKey)]
       ELSE UNCHANGED selectedMetric
    /\ UNCHANGED <<cardMounted, cardTicker, companyData, loading, cardError,
                   cardCurrentStep, effectRun, cardInterval, fetches,
                   cardThrown>>
    /\ CardHandled("metricClick")

\* Click on the overlay or the close button of the sources modal.
CardCloseSourcesModal ==
    /\ DataViewRendered
    /\ selectedMetric # NullMetric
    /\ selectedMetric' = NullMetric
    /\ UNCHANGED <<cardMounted, cardTicker, companyData, loading, cardError,
                   cardCurrentStep, effectRun, cardInterval, fetches,
                   cardThrown>>
    /\ CardHandled("modalClose")

NextCard ==
    \/ \E t \in Tickers \cup {UndefinedStr} : CardMount(t)
    \/ \E t \in Tickers \cup {UndefinedStr} : CardChangeTicker(t)
    \/ CardUnmount
    \/ \E run \in cardInterval : CardIntervalTick(run)
    \/ \E fetch \in fetches : \E response \in DetailResponses(fetch.ticker) :
           CardFetchResolved(fetch, response)
    \/ \E fetch \in fetches : \E response \in DetailResponses(fetch.ticker) :
           CardFetchRejected(fetch, response)
    \/ \E metricKey \in RenderedTruthKeys : CardMetricClick(metricKey)
    \/ CardCloseSourcesModal

SpecCard == Init /\ [][NextCard]_vars

\* ------------------------------------- the two workflows, one at a time
\* CompanySearchPopup and CardPopup share no state: a behaviour is one of the
\* onboarding workflow with CardPopup not yet shown, or one of CardPopup with
\* the onboarding workflow at its start.
NextFailures ==
    \/ InitCard /\ Next
    \/ InitOnboarding /\ NextCard

SpecFailures == Init /\ [][NextFailures]_vars

\* ------------------------------------------- searchCompanies on its own
\* The longest query searchCompanies is called with.
MaxQueryLen == 3

\* The characters of the queries: a space, letters of both cases and the dot
\* of the domains.
QueryChars == {" ", "o", "G", ".", "c"}

SeqsUpTo(S, n) == UNION {[1..k -> S] : k \in 0..n}

Queries == SeqsUpTo(QueryChars, MaxQueryLen)

InitSearch ==
    /\ InitOnboarding
    /\ InitCard
    /\ fnInput \in Queries
    /\ fnOutput = NotCalled

\* searchCompanies(fnInput)
CallSearchCompanies ==
    /\ ~fnOutput.called
    /\ fnOutput' = Returned(searchCompanies(fnInput))
    /\ UNCHANGED <<fnInput, onboardingVars, cardVars>>

NextSearch == CallSearchCompanies

SpecSearch == InitSearch /\ [][NextSearch]_vars

\* ------------------------------------------------ addCompany on its own
InitApi ==
    /\ InitOnboarding
    /\ InitCard
    /\ fnInput \in Responses
    /\ fnOutput = NotCalled

\* addCompany(...) with fetch giving the response fnInput.
CallAddCompany ==
    /\ ~fnOutput.called
    /\ fnOutput' = Returned(addCompany(fnInput))
    /\ UNCHANGED <<fnInput, onboardingVars, cardVars>>

NextApi == CallAddCompany

SpecApi == InitApi /\ [][NextApi]_vars

\* ------------------------------------------ fetchCompanyData on its own
\* The tickers fetchCompanyData is called with.
FetchTickers == Tickers \cup {"GOOG", "MSFT"}

\* The outcomes of fetch() for a ticker: a 200 with either record, every
\* status of Statuses, or no answer at all.
FetchInputs ==
    { [ticker |-> t, response |-> r] :
        t \in FetchTickers,
        r \in { [kind |-> "ok", status |-> 200, data |-> d] :
                  d \in UNION {DetailPayloads(u) : u \in Tickers} }
              \cup
              { [kind |-> "http", status |-> st, data |-> NullData] :
                  st \in Statuses }
              \cup
              { [kind |-> "network", status |-> 0, data |-> NullData] } }

InitFetch ==
    /\ InitOnboarding
    /\ InitCard
    /\ fnInput \in FetchInputs
    /\ fnOutput = NotCalled

\* fetchCompanyData(ticker) with fetch giving the response of fnInput.
CallFetchCompanyData ==
    /\ ~fnOutput.called
    /\ fnOutput' = Returned(fetchCompanyData(fnInput.ticker, fnInput.response))
    /\ UNCHANGED <<fnInput, onboardingVars, cardVars>>

NextFetch == CallFetchCompanyData

SpecFetch == InitFetch /\ [][NextFetch]_vars

\* ------------------------------------------------- what CardPopup shows
\* An object of the record is the sequence of its entries in the order of
\* Object.entries. The keys of the objects below are not canonical numeric
\* strings unless the object has one key, so the order is the order of
\* insertion.
Has(data, field) == field \in DOMAIN data

\* The number of entries getSampleMetrics keeps.
SampleMetricsLimit == 10

\* The number of entries getFormattedPromises keeps.
PromisesLimit == 20

\* The number of entries getFormattedTruths keeps.
TruthsLimit == 20

\* String.prototype.toUpperCase on one character.
UpperChar(c) ==
    CASE c = "a" -> "A" [] c = "b" -> "B" [] c = "c" -> "C" [] c = "d" -> "D"
      [] c = "e" -> "E" [] c = "f" -> "F" [] c = "g" -> "G" [] c = "h" -> "H"
      [] c = "i" -> "I" [] c = "j" -> "J" [] c = "k" -> "K" [] c = "l" -> "L"
      [] c = "m" -> "M" [] c = "n" -> "N" [] c = "o" -> "O" [] c = "p" -> "P"
      [] c = "q" -> "Q" [] c = "r" -> "R" [] c = "s" -> "S" [] c = "t" -> "T"
      [] c = "u" -> "U" [] c = "v" -> "V" [] c = "w" -> "W" [] c = "x" -> "X"
      [] c = "y" -> "Y" [] c = "z" -> "Z"
      [] OTHER -> c

\* The characters \w matches.
IsWordChar(c) ==
    \/ c = "_"
    \/ c \in {"0", "1", "2", "3", "4", "5", "6", "7", "8", "9"}
    \/ UpperChar(c) # c
    \/ LowerChar(c) # c

\* replace(/_/g, ' ')
ReplaceUnderscores(s) ==
    [i \in 1..Len(s) |-> IF s[i] = "_" THEN " " ELSE s[i]]

\* replace(/\b\w/g, l => l.toUpperCase()): \b\w matches a word character
\* that opens the string or follows a character that is not one.
CapitalizeWords(s) ==
    [i \in 1..Len(s) |->
        IF IsWordChar(s[i]) /\ (i = 1 \/ ~IsWordChar(s[i - 1]))
        THEN UpperChar(s[i])
        ELSE s[i]]

\* Object.fromEntries: one entry per key, at the place of the first entry of
\* the key and with the value of the last.
ObjectFromEntries(entries) ==
    LET first == {i \in 1..Len(entries) :
                     \A j \in 1..(i - 1) : entries[j].key # entries[i].key}
        last(k) == CHOOSE i \in 1..Len(entries) :
                       /\ entries[i].key = k
                       /\ \A j \in (i + 1)..Len(entries) : entries[j].key # k
        Place[n \in 0..Len(entries)] ==
            IF n = 0 THEN <<>>
            ELSE IF n \in first
            THEN Append(Place[n - 1], [key |-> entries[n].key,
                                       value |-> entries[last(entries[n].key)].value])
            ELSE Place[n - 1]
    IN Place[Len(entries)]

getSampleMetricsUncut ==
    IF ~Has(companyData, "promise")
    THEN <<>>
    ELSE ObjectFromEntries(companyData.promise)

\* getSampleMetrics
getSampleMetrics ==
    IF ~Has(companyData, "promise")
    THEN <<>>
    ELSE ObjectFromEntries(Slice0(companyData.promise, SampleMetricsLimit))

\* The label of an item of the sample-metrics panel.
SampleMetricLabel(key) == CapitalizeWords(ReplaceUnderscores(key))

\* The items of the sample-metrics panel.
SampleMetricsPanel ==
    [i \in 1..Len(getSampleMetrics) |->
        [label |-> SampleMetricLabel(getSampleMetrics[i].key),
         key |-> getSampleMetrics[i].key,
         value |-> getSampleMetrics[i].value]]

getFormattedPromisesVerifiedOnly ==
    IF ~Has(companyData, "promise")
    THEN <<>>
    ELSE LET kept == SelectSeq(companyData.promise,
                        LAMBDA e : /\ Has(companyData, "truth")
                                   /\ \E i \in 1..Len(companyData.truth) :
                                          companyData.truth[i].key = e.key)
             entries == Slice0(kept, PromisesLimit)
         IN [i \in 1..Len(entries) |->
                [metric |-> CapitalizeWords(ReplaceUnderscores(entries[i].key)),
                 value |-> entries[i].value]]

\* getFormattedPromises
getFormattedPromises ==
    IF ~Has(companyData, "promise")
    THEN <<>>
    ELSE LET entries == Slice0(companyData.promise, PromisesLimit)
         IN [i \in 1..Len(entries) |->
                [metric |-> CapitalizeWords(ReplaceUnderscores(entries[i].key)),
                 value |-> entries[i].value]]

getFormattedTruthsSampled ==
    IF ~Has(companyData, "truth")
    THEN <<>>
    ELSE LET entries == Slice0(companyData.truth, SampleMetricsLimit)
         IN [i \in 1..Len(entries) |->
                [metricKey |-> entries[i].key,
                 metric |-> CapitalizeWords(ReplaceUnderscores(entries[i].key)),
                 verified |-> entries[i].value]]

\* getFormattedTruths
getFormattedTruths ==
    IF ~Has(companyData, "truth")
    THEN <<>>
    ELSE LET entries == Slice0(companyData.truth, TruthsLimit)
         IN [i \in 1..Len(entries) |->
                [metricKey |-> entries[i].key,
                 metric |-> CapitalizeWords(ReplaceUnderscores(entries[i].key)),
                 verified |-> entries[i].value]]

\* The lines of the truths list: the label, the verdict and the sources the
\* line counts and opens.
TruthsList ==
    [i \in 1..Len(getFormattedTruths) |->
        [metric |-> getFormattedTruths[i].metric,
         verified |-> getFormattedTruths[i].verified,
         citations |-> getSourcesForMetric(getFormattedTruths[i].metricKey)]]

SourcesModalLabelPlain(metricKey) == ReplaceUnderscores(metricKey)

\* The name of the metric in the sources modal.
SourcesModalLabel(metricKey) == CapitalizeWords(ReplaceUnderscores(metricKey))

\* What the sources modal shows, when it is open.
SourcesModal ==
    IF selectedMetric = NullMetric
    THEN [open |-> FALSE]
    ELSE [open |-> TRUE,
          label |-> SourcesModalLabel(selectedMetric.metricKey),
          sources |-> selectedMetric.sources]

\* The most entries a promise or truth object of the records below has.
MaxEntries == 21

\* The longest metric key the labels are made from.
MaxKeyLen == 3

Letters ==
    <<"a", "b", "c", "d", "e", "f", "g", "h", "i", "j", "k", "l", "m",
      "n", "o", "p", "q", "r", "s", "t", "u", "v", "w", "x", "y", "z">>

\* The i-th of a family of distinct metric keys: m_aa, m_ab, ...
KeyOf(i) ==
    <<"m", "_", Letters[(((i - 1) \div Len(Letters)) % Len(Letters)) + 1],
      Letters[((i - 1) % Len(Letters)) + 1]>>

\* The sources of the i-th key name it, so that no other key has them.
SourcesOfKey(i) ==
    << [url |-> "https://example.org/" \o ToString(i),
        description |-> "report"] >>

\* metric_sources with sources for the keys of the indices in S.
MetricSourcesFor(S) ==
    [k \in {KeyOf(i) : i \in S} |->
        SourcesOfKey(CHOOSE i \in S : KeyOf(i) = k)]

\* A promise object with the first n keys.
PromiseOf(n) == [i \in 1..n |-> [key |-> KeyOf(i), value |-> ToString(i)]]

\* A truth object with n keys that start from the key after the first skip.
TruthOf(skip, n) ==
    [i \in 1..n |-> [key |-> KeyOf(skip + i), value |-> (i % 2 = 1)]]

BareRecord == [name |-> "Acme", ticker |-> "ACME", esg_report |-> "report.pdf"]

\* Adds the field to the record.
With(data, field, value) == (field :> value) @@ data

\* Records with promise and truth objects of every size around the limits
\* of the views, with and without keys of their own, and with sources for
\* none, some or all of the keys.
SizedRecords ==
    LET promises == {[on |-> FALSE]}
                    \cup {[on |-> TRUE, v |-> PromiseOf(n)] : n \in 0..MaxEntries}
        truths == {[on |-> FALSE]}
                  \cup {[on |-> TRUE, v |-> TruthOf(skip, n)] :
                           skip \in {0, 1}, n \in {0, 1, MaxEntries}}
        sources == {[on |-> FALSE]}
                   \cup {[on |-> TRUE, v |-> MetricSourcesFor(S)] :
                            S \in { {},
                                    {i \in 1..(MaxEntries + 1) : i % 2 = 0},
                                    1..(MaxEntries + 1) }}
        Opt(data, field, o) == IF o.on THEN With(data, field, o.v) ELSE data
    IN { Opt(Opt(Opt(BareRecord, "promise", p), "truth", t),
             "metric_sources", s) :
           p \in promises, t \in truths, s \in sources }

\* The characters of the metric keys: letters of both cases, a digit and
\* the underscore.
KeyChars == {"a", "B", "2", "_"}

\* Records with one metric, for every key up to MaxKeyLen characters.
KeyedRecords ==
    { With(With(With(BareRecord,
          "promise", << [key |-> k, value |-> "1000t"] >>),
          "truth", << [key |-> k, value |-> TRUE] >>),
          "metric_sources", (k :> << [url |-> "https://x",
                                      description |-> "report"] >>)) :
        k \in SeqsUpTo(KeyChars, MaxKeyLen)
              \cup { <<"g", "h", "g", "_", "e", "m", "i", "s", "s", "i",
                       "o", "n", "s">> } }

ViewRecords == SizedRecords \cup KeyedRecords

\* CardPopup showing a record, its sources modal closed or opened by a
\* click on a line of the truths list.
InitViews ==
    /\ InitOnboarding
    /\ fnInput \in ViewRecords
    /\ fnOutput = NotCalled
    /\ cardMounted = TRUE
    /\ cardTicker = "ACME"
    /\ companyData = fnInput
    /\ loading = FALSE
    /\ cardError = Null
    /\ cardCurrentStep = 0
    /\ selectedMetric \in
           {NullMetric}
           \cup { [metricKey |-> k, sources |-> getSourcesForMetric(k)] :
                    k \in {j \in RenderedTruthKeys :
                              Len(getSourcesForMetric(j)) > 0} }
    /\ effectRun = 1
    /\ cardInterval = {}
    /\ fetches = {}
    /\ cardThrown = Null
    /\ cardEvent = "fetchResolved"

\* One render of the data view.
RenderViews ==
    /\ ~fnOutput.called
    /\ DataViewRendered
    /\ fnOutput' = Returned([sampleMetrics |-> SampleMetricsPanel,
                             promises |-> getFormattedPromises,
                             truths |-> TruthsList,
                             modal |-> SourcesModal])
    /\ UNCHANGED <<fnInput, onboardingVars, cardVars>>

NextViews == RenderViews

SpecViews == InitViews /\ [][NextViews]_vars

\* ------------------------------- handleAddCompany of Dashboard on its own
\* The longest portfolio handleAddCompany is called on.
MaxPortfolio == 2

\* The companies of the directory the portfolios are made of.
PortfolioPool == {Directory[i] : i \in 1..(MaxPortfolio + 1)}

\* Portfolios of distinct companies, with ids that grow, shrink or leave
\* gaps along the list.
Portfolios ==
    UNION { { [i \in 1..n |-> [id |-> ids[i], name |-> list[i].name,
                               domain |-> list[i].domain]] :
                list \in {l \in [1..n -> PortfolioPool] :
                             \A i, j \in 1..n : l[i] = l[j] => i = j},
                ids \in { [i \in 1..n |-> i], [i \in 1..n |-> n + 1 - i],
                          [i \in 1..n |-> 2 * i] } } :
            n \in 0..MaxPortfolio }

\* What onAddCompany is called with: a company of the directory, or the
\* record of the backend, which has no domain.
MergeArguments ==
    { [name |-> c.name, domain |-> c.domain, ticker |-> UndefinedStr] :
        c \in PortfolioPool }
    \cup Payloads

\* Dashboard shown with a portfolio, saved by the effect on [companies].
InitMerge ==
    /\ InitCard
    /\ fnInput \in [company : MergeArguments, companies : Portfolios]
    /\ fnOutput = NotCalled
    /\ isAuthenticated = TRUE
    /\ authStorage = "true"
    /\ signInError = ""
    /\ epoch = 1
    /\ companies = fnInput.companies
    /\ showCompanySearch = TRUE
    /\ alertMessage = NullName
    /\ portfolioStorage = SaveEffect(fnInput.companies, <<>>)
    /\ searchTerm = Empty
    /\ results = <<>>
    /\ isLoading = FALSE
    /\ isAdding = FALSE
    /\ addingCompany = NullName
    /\ error = Null
    /\ currentStep = 0
    /\ debounceTimer = {}
    /\ stepInterval = {}
    /\ requests = <<>>
    /\ settleTimer = <<>>
    /\ lastEvent = [kind |-> "init", target |-> NullName, wasAdding |-> FALSE]
    /\ handoffs = <<>>
    /\ tickerOf = [i \in 1..Len(fnInput.companies) |-> UndefinedStr]
    /\ jobs = 0
    /\ lastSent = [company_name |-> NullName, ticker |-> Null]
    /\ thrown = Null

\* handleAddCompany(company) of the Dashboard shown.
CallHandleAddCompany ==
    /\ ~fnOutput.called
    /\ DashboardHandleAddCompany(fnInput.company, companies, TRUE)
    /\ fnOutput' = Returned(Undefined)
    /\ UNCHANGED <<fnInput, cardVars, appVars, showCompanySearch, popupVars,
                   debounceTimer, stepInterval, requests, settleTimer,
                   lastEvent, jobs, lastSent, thrown>>

NextMerge == CallHandleAddCompany

SpecMerge == InitMerge /\ [][NextMerge]_vars

\* ------------------------------------- the onboarding workflow, scheduled
\* The addCompany request of a job is answered or fails.
RequestSettles(job) ==
    \E i \in 1..MaxJobs, response \in BackendResponses :
        /\ i \in 1..Len(requests)
        /\ requests[i].job = job
        /\ \/ AddCompanyResolved(i, response)
           \/ AddCompanyRejected(i, response)

\* The 500 ms timer of a job fires.
SettleTimerFires(job) ==
    \E k \in 1..MaxJobs :
        /\ k \in 1..Len(settleTimer)
        /\ settleTimer[k].job = job
        /\ SettleTimeout(k)

\* The workflow over one session: the user signs in once.
NextLive ==
    \/ \E username \in Credentials, password \in Credentials :
           epoch = 0 /\ SignInSubmit(username, password)
    \/ SignOut
    \/ OpenCompanySearch
    \/ \E value \in Terms : ChangeSearchTerm(value)
    \/ \E term \in Terms : DebounceTimeout(term)
    \/ \E i \in 1..SearchLimit : ClickAdd(i)
    \/ ClickAddCustom
    \/ KeyDownEnter
    \/ \E timer \in stepInterval : StepIntervalTick(timer)
    \/ \E job \in 1..MaxJobs : RequestSettles(job)
    \/ \E job \in 1..MaxJobs : SettleTimerFires(job)
    \/ OverlayClick
    \/ CloseButtonClick

\* The browser answers or fails every request and fires every timer that
\* is not cleared.
SpecLive ==
    /\ Init
    /\ [][NextLive]_vars
    /\ \A job \in 1..MaxJobs : WF_vars(RequestSettles(job))
    /\ \A job \in 1..MaxJobs : WF_vars(SettleTimerFires(job))

\* ------------------------------ handleAddCompany of Dashboard, repeatedly
\* The most calls of handleAddCompany in a row.
MaxAdds == 3

\* Dashboard shown with an empty portfolio.
InitAdds ==
    /\ InitMerge
    /\ fnInput.companies = <<>>

\* onAddCompany is called again, on the portfolio as it is now.
NextArgument(company) ==
    /\ fnOutput.called
    /\ Len(handoffs) < MaxAdds
    /\ fnInput' = [company |-> company, companies |-> companies]
    /\ fnOutput' = NotCalled
    /\ UNCHANGED <<onboardingVars, cardVars>>

NextAdds ==
    \/ CallHandleAddCompany
    \/ \E company \in MergeArguments : NextArgument(company)

SpecAdds == InitAdds /\ [][NextAdds]_vars

\* --------------------------------------------------- App from its mount
\* What localStorage holds under 'isAuthenticated' when the page loads:
\* nothing, the 'true' of an earlier sign-in, or another string.
StoredFlags == {Null, "true", "false"}

\* App after its first render, before its effect: the flag is the false of
\* useState, whatever localStorage holds.
InitApp ==
    /\ InitRest
    /\ isAuthenticated = FALSE
    /\ authStorage \in StoredFlags
    /\ signInError = ""
    /\ epoch = 0
    /\ companies = <<>>
    /\ showCompanySearch = FALSE
    /\ alertMessage = NullName
    /\ portfolioStorage = <<>>
    /\ searchTerm = Empty
    /\ results = <<>>
    /\ isLoading = FALSE
    /\ isAdding = FALSE
    /\ addingCompany = NullName
    /\ error = Null
    /\ currentStep = 0
    /\ debounceTimer = {}
    /\ stepInterval = {}
    /\ requests = <<>>
    /\ settleTimer = <<>>
    /\ lastEvent = [kind |-> "boot", target |-> NullName, wasAdding |-> FALSE]
    /\ handoffs = <<>>
    /\ tickerOf = <<>>
    /\ jobs = 0
    /\ lastSent = [company_name |-> NullName, ticker |-> Null]
    /\ thrown = Null

AppMountEffectAnyValue ==
    /\ lastEvent.kind = "boot"
    /\ IF authStorage # Null
       THEN /\ isAuthenticated' = TRUE
            /\ epoch' = epoch + 1
            /\ companies' = portfolioStorage
       ELSE UNCHANGED <<isAuthenticated, epoch, companies>>
    /\ Handled("mount", NullName)
    /\ UNCHANGED <<authStorage, signInError, showCompanySearch, alertMessage,
                   portfolioStorage, popupVars, debounceTimer, stepInterval,
                   requests, settleTimer, historyVars, thrown>>

\* The effect of App on mount: the flag is set when localStorage holds
\* 'true'; Dashboard then mounts and loads the saved list.
AppMountEffect ==
    /\ lastEvent.kind = "boot"
    /\ IF authStorage = "true"
       THEN /\ isAuthenticated' = TRUE
            /\ epoch' = epoch + 1
            /\ companies' = portfolioStorage
       ELSE UNCHANGED <<isAuthenticated, epoch, companies>>
    /\ Handled("mount", NullName)
    /\ UNCHANGED <<authStorage, signInError, showCompanySearch, alertMessage,
                   portfolioStorage, popupVars, debounceTimer, stepInterval,
                   requests, settleTimer, historyVars, thrown>>

\* App with SignIn, Dashboard and the popup: the effect of the mount comes
\* first, before any event of the user.
NextApp ==
    \/ AppMountEffect
    \/ (lastEvent.kind # "boot" /\ Next)

SpecApp == InitApp /\ [][NextApp]_vars

\* ------------------------------------------------------------------ claims
\* The requests of the popup that is open.
LiveRequests == {i \in 1..Len(requests) : Live(requests[i])}

\* The settle timers of the popup that is open.
LiveSettleTimers == {k \in 1..Len(settleTimer) : Live(settleTimer[k])}

\* The step intervals of the popup that is open.
LiveIntervals == {timer \in stepInterval : Live(timer)}

\* The job of the open popup is waiting for the backend: its addCompany
\* request is outstanding.
Waiting == LiveRequests # {}

\* The job of the open popup has succeeded and its settle timer is pending.
Succeeded == LiveSettleTimers # {}

C2_StepMonotoneNeverTerminalEarly ==
    [][ /\ (Waiting /\ Waiting') => currentStep' >= currentStep
        /\ currentStep' = TerminalStep => (Succeeded' /\ ~Waiting') ]_vars

\* A tick has taken the counter to its last waiting step, still waiting.
C2_Witness ==
    /\ Waiting
    /\ lastEvent.kind = "tick"
    /\ currentStep = LastWaitingStep

\* The name is that of an entry of the portfolio list.
InPortfolioByName(name) ==
    \E i \in 1..Len(companies) : companies[i].name = name

\* C3: a submit of a target already in the portfolio goes directly to
\* Failed with an error message and sends no addCompany request.
C3_DuplicateSubmitRejected ==
    (/\ lastEvent.kind \in SubmitEvents
     /\ ~lastEvent.wasAdding
     /\ InPortfolioByName(lastEvent.target))
    => (/\ requests = <<>>
        /\ ~isAdding
        /\ error # Null)

\* Number of entries of the list that were made from a payload of the ticker.
EntriesOf(ticker) ==
    Cardinality({k \in 1..Len(companies) : tickerOf[k] = ticker})

\* C4: after any sequence of merges there is exactly one entry for each
\* ticker merged, never two.
C4_ExactlyOneEntryPerTicker ==
    \A i \in 1..Len(handoffs) : EntriesOf(handoffs[i].ticker) = 1

\* C5: a merge inserts the entry when its ticker is not in the list: after
\* the merge the list has an entry for the ticker of the payload.
C5_MergeInsertsAbsentTicker ==
    lastEvent.kind = "settled"
    => EntriesOf(handoffs[Len(handoffs)].ticker) >= 1

\* entry.ticker of an entry of the portfolio list
EntryTicker(entry) ==
    IF "ticker" \in DOMAIN entry THEN entry.ticker ELSE UndefinedStr

\* C6: from an empty portfolio, "Acme Co" submitted with no ticker and
\* answered with {name: "Acme Co", ticker: "ACME"} ends with exactly one
\* entry {name: "Acme Co", ticker: "ACME"} and the job Idle.
C6_EndToEndAcme ==
    (/\ lastEvent.kind = "settled"
     /\ lastSent = [company_name |-> AcmeCo, ticker |-> Null]
     /\ handoffs = << [name |-> AcmeCo, ticker |-> "ACME"] >>)
    => (/\ Len(companies) = 1
        /\ companies[1].name = AcmeCo
        /\ EntryTicker(companies[1]) = "ACME"
        /\ ~isAdding
        /\ requests = <<>>
        /\ settleTimer = <<>>)

C8_SuccessHandsOffThenClears ==
    [][ /\ lastEvent'.kind = "resolved"
             => (/\ currentStep' = TerminalStep
                 /\ showCompanySearch' /\ isAdding'
                 /\ Succeeded'
                 /\ handoffs' = handoffs
                 /\ companies' = companies)
        /\ (Succeeded /\ ~showCompanySearch' /\ lastEvent'.kind # "signOut")
             => (/\ lastEvent'.kind = "settled"
                 /\ \E k \in LiveSettleTimers :
                        /\ handoffs' = Append(handoffs, settleTimer[k].result)
                        /\ settleTimer' = RemoveAt(settleTimer, k))
        /\ lastEvent'.kind = "signOut" => UNCHANGED <<handoffs, settleTimer>> ]_vars

\* The settle timer has fired: the result is handed off, the popup closed.
C8_Witness ==
    /\ lastEvent.kind = "settled"
    /\ ~showCompanySearch
    /\ Len(handoffs) = 1
    /\ Len(companies) = 1

\* C9: while the addCompany request of a job is outstanding the popup is
\* not dismissed: no step from such a state closes it, a click on the close
\* button or on the overlay included.  (Sign Out unmounts the whole
\* Dashboard; it does not call onClose.)
C9_NoDismissWhileActive ==
    [][ (isAdding /\ Waiting /\ lastEvent'.kind # "signOut")
          => showCompanySearch' ]_vars

\* The overlay was clicked while a job was waiting; the popup is still open.
C9_Witness ==
    /\ lastEvent.kind = "overlayClick"
    /\ lastEvent.wasAdding
    /\ Waiting
    /\ showCompanySearch

\* C10: a submit whose target name is empty after trimming leaves the
\* workflow idle, sends no request and surfaces a validation error.
C10_BlankSubmitSurfacesError ==
    (/\ lastEvent.kind \in SubmitEvents
     /\ ~lastEvent.wasAdding
     /\ Trim(lastEvent.target) = Empty)
    => (/\ ~isAdding
        /\ currentStep = 0
        /\ requests = <<>>
        /\ error = "Please enter a company name")
\* C11: a failed onboarding never mutates the portfolio list.  While the
\* request of a job is outstanding the list is the one of the submit; the
\* step at which the request fails leaves the list and its saved copy as
\* they are, so the list after the failure is the list before the submit; and
\* a hand-off that Dashboard rejects (the step does not append an entry)
\* leaves both identical too.
C11_FailureLeavesPortfolio ==
    /\ [](\A i \in LiveRequests : requests[i].snapshot = companies)
    /\ [][ (lastEvent'.kind = "rejected")
             => (/\ companies' = companies
                 /\ portfolioStorage' = portfolioStorage
                 /\ \E i \in LiveRequests :
                        /\ requests' = RemoveAt(requests, i)
                        /\ requests[i].snapshot = companies') ]_vars
    /\ [][ (lastEvent'.kind = "settled"
             /\ Len(companies') # Len(companies) + 1)
             => (/\ companies' = companies
                 /\ portfolioStorage' = portfolioStorage) ]_vars

\* A job failed while the list held an entry, and the entry is still there.
C11_Witness ==
    /\ lastEvent.kind = "rejected"
    /\ error # Null
    /\ Len(companies) = 1
    /\ companies[1].name = AcmeCo
\* C12: the step interval and the settle timer of a job are cancelled on
\* every exit path, teardown of the popup or of its parent view included:
\* every interval that runs and every settle timer that is pending belongs
\* to the popup that is open, and no callback of either runs for a job whose
\* view is gone.
C12_TimersCancelledOnExit ==
    /\ \A timer \in stepInterval : Live(timer)
    /\ \A k \in 1..Len(settleTimer) : Live(settleTimer[k])
    /\ lastEvent.kind \notin {"orphanTick", "orphanSettled"}

\* C13: the step counter advances only on ticks of the interval of a job
\* that is still waiting for the backend, by the saturating step function,
\* and never above the last waiting step: an interval runs for the open
\* popup only while its request is outstanding, a tick happens only then, a
\* tick of a job whose view is gone changes nothing, and any other rise of
\* the counter is the jump to the terminal step on success.
C13_StepAdvancesOnlyWhileWaiting ==
    /\ [](\A timer \in LiveIntervals :
             \E i \in LiveRequests : requests[i].job = timer.job)
    /\ [](Waiting => currentStep <= LastWaitingStep)
    /\ [][ (lastEvent'.kind = "tick")
             => (/\ Waiting /\ Waiting' /\ isAdding
                 /\ currentStep' <= LastWaitingStep
                 /\ currentStep' \in {currentStep, currentStep + 1}) ]_vars
    /\ [][ (lastEvent'.kind = "orphanTick")
             => currentStep' = currentStep ]_vars
    /\ [][ (currentStep' > currentStep)
             => (\/ lastEvent'.kind = "tick"
                 \/ lastEvent'.kind = "resolved"
                    /\ currentStep' = TerminalStep) ]_vars

\* A tick at the last waiting step has left the counter there.
C13_Witness ==
    /\ lastEvent.kind = "tick"
    /\ lastEvent.wasAdding
    /\ currentStep = LastWaitingStep
    /\ Waiting
    /\ jobs = 2

\* C17: only the search of the most recent term is applied.  A pending
\* debounce timer is always the one of the current search term (the earlier
\* one was cleared by the keystroke), so the results a timer stores are the
\* results for the current term, and nothing else changes the results of an
\* open popup.
C17_OnlyLatestSearchApplied ==
    /\ [](\A term \in debounceTimer : term = searchTerm)
    /\ [][ (lastEvent'.kind = "debounce")
             => (/\ lastEvent'.target = searchTerm
                 /\ results' = IF Len(Trim(searchTerm)) > 0
                                THEN searchCompanies(searchTerm)
                                ELSE <<>>) ]_vars
    /\ [][ (results' # results)
             => (lastEvent'.kind = "debounce" \/ ~showCompanySearch') ]_vars

\* The term was changed while suggestions of an earlier term were shown; the
\* timer of the new term is the only one pending.
C17_Witness ==
    /\ lastEvent.kind = "change"
    /\ searchTerm = <<" ">> \o AcmeCo \o <<" ">>
    /\ results = searchCompanies(<<"g", "o", "o">>)
    /\ Len(results) > 0
    /\ debounceTimer = {searchTerm}
\* ------------------------------------------------ claims on searchCompanies
\* The query as the match rule reads it: lower-cased and trimmed.
Needle(query) == Trim(ToLowerCase(query))

\* The match rule: the name or the domain of the entry contains the needle.
EntryMatches(entry, query) ==
    \/ Includes(ToLowerCase(entry.name), Needle(query))
    \/ Includes(ToLowerCase(entry.domain), Needle(query))

\* The positions of the directory entries that match the query.
MatchIndices(query) ==
    {i \in 1..Len(Directory) : EntryMatches(Directory[i], query)}

\* The position of the k-th match, in the order of the directory.
KthMatch(query, k) ==
    CHOOSE i \in MatchIndices(query) :
        Cardinality({j \in MatchIndices(query) : j <= i}) = k

\* C14: searchCompanies returns the empty sequence for the empty query and
\* for every query of white space only.
C14_BlankQueryReturnsEmpty ==
    (fnOutput.called /\ Trim(fnInput) = Empty) => fnOutput.value = <<>>

\* C15: for every non-empty query searchCompanies returns at most 10
\* results, and the name or the domain of each contains the trimmed,
\* lower-cased query.
C15_AtMostTenAllMatch ==
    (fnOutput.called /\ fnInput # Empty)
      => /\ Len(fnOutput.value) <= SearchLimit
         /\ \A k \in 1..Len(fnOutput.value) :
               EntryMatches(fnOutput.value[k], fnInput)

\* An upper-case query behind a space with more than 10 matches: 10 returned.
C15_Witness ==
    /\ fnOutput.called
    /\ fnInput = <<" ", "G">>
    /\ Len(fnOutput.value) = SearchLimit
    /\ Cardinality(MatchIndices(fnInput)) > SearchLimit

\* C16: for a query that is not blank, searchCompanies returns exactly the
\* first 10 matching entries in the order of the directory: as many as
\* there are matches up to 10, the k-th result being the k-th match.
C16_FirstTenInDirectoryOrder ==
    (fnOutput.called /\ Trim(fnInput) # Empty)
      => /\ Len(fnOutput.value) =
               IF Cardinality(MatchIndices(fnInput)) < SearchLimit
               THEN Cardinality(MatchIndices(fnInput))
               ELSE SearchLimit
         /\ \A k \in 1..Len(fnOutput.value) :
               fnOutput.value[k] = Directory[KthMatch(fnInput, k)]

\* A query that matches some entries by their domain only, fewer than 10 in
\* all, not adjacent in the directory.
C16_Witness ==
    /\ fnOutput.called
    /\ fnInput = <<"o", ".">>
    /\ Len(fnOutput.value) \in 2..(SearchLimit - 1)
    /\ \E k \in 1..Len(fnOutput.value) :
          ~Includes(ToLowerCase(fnOutput.value[k].name), Needle(fnInput))
    /\ \E k \in 1..(Len(fnOutput.value) - 1) :
          KthMatch(fnInput, k + 1) > KthMatch(fnInput, k) + 1
\* C18: for a non-2xx response the message of the error addCompany throws
\* is the detail of the body when the body is JSON with a detail, and
\* "HTTP error! status: N" otherwise, N being the status of the response.
C18_ErrorMessageDetailOrStatus ==
    (fnOutput.called /\ fnInput.kind = "http")
      => /\ ~fnOutput.value.ok
         /\ fnOutput.value.message =
               IF fnInput.parseable /\ Truthy(fnInput.detail)
               THEN fnInput.detail
               ELSE HttpErrorMessage(fnInput.status)
\* ------------------------------------------------------ claims on CardPopup
\* The fetch of the current effect run is outstanding.
CardWaiting == \E fetch \in fetches : IsMounted(fetch.run)

\* C19, as stated: when fetchCompanyData rejects in CardPopup, companyData
\* is the value it had when the fetch started, and nothing but error and
\* loading changes.
C19_FailedFetchChangesOnlyErrorAndLoading ==
    [][ (cardEvent' = "fetchRejected")
          => (/\ \E fetch \in fetches :
                    /\ fetches' = fetches \ {fetch}
                    /\ companyData' = fetch.before
              /\ UNCHANGED <<companyData, cardCurrentStep, selectedMetric,
                             cardTicker, cardMounted>>) ]_vars

\* C19, amended: when fetchCompanyData rejects in CardPopup, companyData is
\* the value it had when the fetch started (it does not change while the
\* fetch is outstanding nor at the failure), and the failure changes
\* nothing but error, loading and the step counter, which is reset to 0.
C19_FailedFetchKeepsData ==
    /\ [](\A fetch \in fetches :
             IsMounted(fetch.run) => fetch.before = companyData)
    /\ [][ (cardEvent' = "fetchRejected")
             => (/\ \E fetch \in fetches :
                       /\ fetches' = fetches \ {fetch}
                       /\ companyData' = fetch.before
                 /\ cardError' # Null
                 /\ ~loading'
                 /\ cardCurrentStep' = 0
                 /\ UNCHANGED <<companyData, selectedMetric, cardTicker,
                                cardMounted>>) ]_vars

\* The data of one company was on display, its sources modal open, when the
\* fetch for another ticker failed: the data and the modal state are kept.
C19_Witness ==
    /\ cardEvent = "fetchRejected"
    /\ cardError # Null
    /\ companyData # NullData
    /\ companyData.ticker # cardTicker
    /\ selectedMetric # NullMetric

\* C20: an onboarding or detail-fetch error is terminal and is never
\* retried: a request is sent only by a submit of the user (a fetch only
\* by the mount of CardPopup or a new ticker), after a failure the
\* operation is over (no request of it outstanding, its interval stopped,
\* not adding, not loading), and the error shown is the message of the
\* error thrown.
C20_ErrorsTerminalNoRetry ==
    /\ [](lastEvent.kind = "rejected"
            => (/\ error = thrown
                /\ ~isAdding
                /\ ~Waiting
                /\ LiveIntervals = {}))
    /\ [](cardEvent = "fetchRejected"
            => (/\ cardError = cardThrown
                /\ ~loading
                /\ ~CardWaiting
                /\ cardInterval = {}))
    /\ [][ (jobs' # jobs \/ Len(requests') > Len(requests))
             => (lastEvent'.kind \in SubmitEvents /\ ~isAdding) ]_vars
    /\ [][ (~(fetches' \subseteq fetches))
             => cardEvent' \in {"mount", "ticker"} ]_vars

\* A job failed with the detail of the backend's answer, which is shown.
C20_Witness ==
    /\ lastEvent.kind = "rejected"
    /\ thrown = "ESG report not found"
    /\ error = thrown
    /\ requests = <<>>

\* C21: fetchCompanyData answers a 404 with the not-found error that names
\* the ticker asked for, any other status outside 2xx with the error
\* "HTTP error! status: N", and in both cases hands back no record.
C21_NotFoundIsDistinct ==
    (fnOutput.called /\ fnInput.response.kind = "http") =>
        /\ ~fnOutput.value.ok
        /\ fnOutput.value.data = NullData
        /\ (fnInput.response.status = 404) =>
               /\ fnOutput.value.message \in
                      { "Company with ticker ACME not found",
                        "Company with ticker BETA not found",
                        "Company with ticker GOOG not found",
                        "Company with ticker MSFT not found" }
               /\ fnOutput.value.message =
                      "Company with ticker " \o fnInput.ticker \o " not found"
        /\ (fnInput.response.status # 404) =>
               fnOutput.value.message =
                   "HTTP error! status: " \o ToString(fnInput.response.status)

\* A 404 for BETA has been answered with the error naming BETA.
C21_Witness ==
    /\ fnOutput.called
    /\ fnInput.ticker = "BETA"
    /\ fnInput.response.kind = "http"
    /\ fnInput.response.status = 404
    /\ fnOutput.value.message = "Company with ticker BETA not found"

\* The promise, truth and metric_sources objects of the record shown, empty
\* when the record has none.
ShownPromise == IF Has(fnInput, "promise") THEN fnInput.promise ELSE <<>>

ShownTruth == IF Has(fnInput, "truth") THEN fnInput.truth ELSE <<>>

Smaller(a, b) == IF a < b THEN a ELSE b

\* The label of a key: the key with a space for every underscore and with
\* the first character of every word in upper case.
IsLabelOf(label, key) ==
    /\ Len(label) = Len(key)
    /\ \A p \in 1..Len(key) :
           label[p] = IF key[p] = "_" THEN " "
                      ELSE IF p = 1 \/ key[p - 1] = "_" THEN UpperChar(key[p])
                      ELSE key[p]

GhgEmissions ==
    <<"g", "h", "g", "_", "e", "m", "i", "s", "s", "i", "o", "n", "s">>

\* C22: the truths list shows the first 20 entries of truth in their order,
\* each with its label, the value of the entry as the verdict and the list
\* that metric_sources holds under the key of the entry.
C22_TruthsCarryVerdictAndCitations ==
    fnOutput.called =>
        /\ Len(fnOutput.value.truths) = Smaller(Len(ShownTruth), 20)
        /\ \A i \in 1..Len(fnOutput.value.truths) :
               /\ IsLabelOf(fnOutput.value.truths[i].metric, ShownTruth[i].key)
               /\ fnOutput.value.truths[i].verified = ShownTruth[i].value
               /\ ( /\ Has(fnInput, "metric_sources")
                    /\ ShownTruth[i].key \in DOMAIN fnInput.metric_sources ) =>
                      fnOutput.value.truths[i].citations =
                          fnInput.metric_sources[ShownTruth[i].key]

\* The record with ghg_emissions promised, verified and cited has been
\* rendered as the line "Ghg Emissions", verified, with its citation.
C22_Witness ==
    /\ fnOutput.called
    /\ ShownPromise = << [key |-> GhgEmissions, value |-> "1000t"] >>
    /\ ShownTruth = << [key |-> GhgEmissions, value |-> TRUE] >>
    /\ fnOutput.value.truths =
           << [metric |-> <<"G", "h", "g", " ", "E", "m", "i", "s", "s", "i",
                            "o", "n", "s">>,
               verified |-> TRUE,
               citations |-> << [url |-> "https://x",
                                 description |-> "report"] >>] >>

\* C23: a line of the truths list whose key has no entry in metric_sources,
\* or whose record has no metric_sources, has the empty list of citations,
\* and no line has the citations of another key.
C23_CitationsByOwnKeyOnly ==
    fnOutput.called =>
        \A i \in 1..Len(fnOutput.value.truths) :
            /\ ( \/ ~Has(fnInput, "metric_sources")
                 \/ ShownTruth[i].key \notin DOMAIN fnInput.metric_sources ) =>
                   fnOutput.value.truths[i].citations = <<>>
            /\ Has(fnInput, "metric_sources") =>
                   \A k \in DOMAIN fnInput.metric_sources :
                       ( /\ k # ShownTruth[i].key
                         /\ fnInput.metric_sources[k] # <<>> ) =>
                           fnOutput.value.truths[i].citations #
                               fnInput.metric_sources[k]

\* A record with sources for the second key and none for the first has been
\* rendered: the first line has no citation, the second has its own.
C23_Witness ==
    /\ fnOutput.called
    /\ Len(fnOutput.value.truths) >= 2
    /\ Has(fnInput, "metric_sources")
    /\ ShownTruth[1].key \notin DOMAIN fnInput.metric_sources
    /\ ShownTruth[2].key \in DOMAIN fnInput.metric_sources
    /\ fnOutput.value.truths[1].citations = <<>>
    /\ fnOutput.value.truths[2].citations = SourcesOfKey(2)

\* C24: at the four places that show a metric key (the sample-metrics panel,
\* the promises list, the truths list and the sources modal) the label is
\* the key with every underscore replaced by a space and the first
\* character of every word in upper case, so the same key has the same
\* label at all four.
C24_OneLabelEverywhere ==
    fnOutput.called =>
        /\ \A i \in 1..Len(fnOutput.value.sampleMetrics) :
               IsLabelOf(fnOutput.value.sampleMetrics[i].label,
                         ShownPromise[i].key)
        /\ \A i \in 1..Len(fnOutput.value.promises) :
               IsLabelOf(fnOutput.value.promises[i].metric,
                         ShownPromise[i].key)
        /\ \A i \in 1..Len(fnOutput.value.truths) :
               IsLabelOf(fnOutput.value.truths[i].metric, ShownTruth[i].key)
        /\ fnOutput.value.modal.open =>
               IsLabelOf(fnOutput.value.modal.label, selectedMetric.metricKey)
        /\ \A i \in 1..Len(fnOutput.value.sampleMetrics) :
               fnOutput.value.sampleMetrics[i].label =
                   fnOutput.value.promises[i].metric
        /\ \A i \in 1..Len(fnOutput.value.promises) :
           \A j \in 1..Len(fnOutput.value.truths) :
               (ShownPromise[i].key = ShownTruth[j].key) =>
                   fnOutput.value.promises[i].metric =
                       fnOutput.value.truths[j].metric
        /\ fnOutput.value.modal.open =>
               \A j \in 1..Len(fnOutput.value.truths) :
                   (ShownTruth[j].key = selectedMetric.metricKey) =>
                       fnOutput.value.modal.label =
                           fnOutput.value.truths[j].metric

\* The key a_a has been rendered at the four places, the modal open on it,
\* as "A A".
C24_Witness ==
    /\ fnOutput.called
    /\ ShownPromise = << [key |-> <<"a", "_", "a">>, value |-> "1000t"] >>
    /\ fnOutput.value.modal.open
    /\ selectedMetric.metricKey = <<"a", "_", "a">>
    /\ fnOutput.value.sampleMetrics[1].label = <<"A", " ", "A">>
    /\ fnOutput.value.promises[1].metric = <<"A", " ", "A">>
    /\ fnOutput.value.truths[1].metric = <<"A", " ", "A">>
    /\ fnOutput.value.modal.label = <<"A", " ", "A">>

\* C25: the sample-metrics panel shows the first 10 entries of promise in
\* their order, keys and values as they are: all of them when there are
\* fewer, none when the record has no promise.
C25_SampleIsFirstTen ==
    fnOutput.called =>
        /\ Len(fnOutput.value.sampleMetrics) = Smaller(Len(ShownPromise), 10)
        /\ \A i \in 1..Len(fnOutput.value.sampleMetrics) :
               /\ fnOutput.value.sampleMetrics[i].key = ShownPromise[i].key
               /\ fnOutput.value.sampleMetrics[i].value = ShownPromise[i].value

\* A promise of more than 10 entries has been rendered as its first 10.
C25_Witness ==
    /\ fnOutput.called
    /\ Len(ShownPromise) > 10
    /\ Len(fnOutput.value.sampleMetrics) = 10
    /\ fnOutput.value.sampleMetrics[10].key = KeyOf(10)
    /\ fnOutput.value.sampleMetrics[10].value = "10"

\* C26: the promises list shows the first 20 entries of promise in their
\* order, whatever truth holds: an entry whose key truth lacks is shown,
\* and a key that only truth has is not.
C26_PromisesAreFirstTwenty ==
    fnOutput.called =>
        /\ Len(fnOutput.value.promises) = Smaller(Len(ShownPromise), 20)
        /\ \A i \in 1..Len(fnOutput.value.promises) :
               /\ IsLabelOf(fnOutput.value.promises[i].metric,
                            ShownPromise[i].key)
               /\ fnOutput.value.promises[i].value = ShownPromise[i].value

\* A promise of more than 20 entries whose first key truth lacks, with a
\* truth that has a key of its own, has been rendered: the first 20
\* entries, the first key among them.
C26_Witness ==
    /\ fnOutput.called
    /\ Len(ShownPromise) > 20
    /\ Len(ShownTruth) > 20
    /\ \A j \in 1..Len(ShownTruth) : ShownTruth[j].key # KeyOf(1)
    /\ \E j \in 1..Len(ShownTruth) :
           \A i \in 1..Len(ShownPromise) : ShownPromise[i].key # ShownTruth[j].key
    /\ Len(fnOutput.value.promises) = 20
    /\ fnOutput.value.promises[1] =
           [metric |-> <<"M", " ", "A", "a">>, value |-> "1"]

\* C27: a call of handleAddCompany that adds the company leaves the list it
\* was called on as it was, entry by entry, and puts the new entry, with
\* the name and the domain of the company and an id of its own, after the
\* last: the company added last is last.
C27_MergeAppends ==
    (fnOutput.called /\ Has(fnInput, "companies")
         /\ companies # fnInput.companies) =>
        /\ Len(companies) = Len(fnInput.companies) + 1
        /\ \A i \in 1..Len(fnInput.companies) :
               companies[i] = fnInput.companies[i]
        /\ companies[Len(companies)].name = fnInput.company.name
        /\ companies[Len(companies)].domain = PropDomain(fnInput.company)
        /\ \A i \in 1..Len(fnInput.companies) :
               companies[i].id # companies[Len(companies)].id

\* A company has been added to a portfolio of two whose ids shrink along
\* the list: it is the third entry, behind the two.
C27_Witness ==
    /\ fnOutput.called
    /\ Has(fnInput, "companies")
    /\ Len(fnInput.companies) = 2
    /\ fnInput.companies[1].id > fnInput.companies[2].id
    /\ Len(companies) = 3
    /\ companies[1] = fnInput.companies[1]
    /\ companies[2] = fnInput.companies[2]
    /\ companies[3].name = fnInput.company.name

\* The request of the job is outstanding or its settle timer is pending.
JobPending(job) ==
    \/ \E i \in 1..Len(requests) : requests[i].job = job
    \/ \E k \in 1..Len(settleTimer) : settleTimer[k].job = job

\* C28: when every addCompany request is answered or fails, every job that
\* was submitted ends and the popup leaves isAdding.  A rejection leaves
\* the popup with isAdding false and an error; a success hands the record
\* of the backend to onAddCompany once, by the one settle timer of the job,
\* and closes the popup with it.
C28_EveryJobEnds ==
    /\ \A job \in 1..MaxJobs : JobPending(job) ~> ~JobPending(job)
    /\ isAdding ~> ~isAdding
    /\ [][ (lastEvent'.kind = "rejected") =>
               (~isAdding' /\ error' # Null) ]_vars
    /\ [][ (lastEvent'.kind = "settled") =>
               ( /\ \E k \in LiveSettleTimers :
                        /\ settleTimer[k].result \in Payloads
                        /\ handoffs' = Append(handoffs, settleTimer[k].result)
                        /\ settleTimer' = RemoveAt(settleTimer, k)
                 /\ ~showCompanySearch'
                 /\ ~isAdding' ) ]_vars
    /\ [][ (handoffs' # handoffs) =>
               (Len(settleTimer') = Len(settleTimer) - 1) ]_vars
    /\ [] (\A job \in 1..MaxJobs :
              Cardinality({i \in 1..Len(requests) : requests[i].job = job})
              + Cardinality({k \in 1..Len(settleTimer) :
                                settleTimer[k].job = job}) <= 1)

\* Two jobs have ended, the first rejected and the second handed off with
\* the popup closed behind it.
C28_Witness ==
    /\ jobs = 2
    /\ \A job \in 1..MaxJobs : ~JobPending(job)
    /\ lastEvent.kind = "settled"
    /\ Len(handoffs) = 1
    /\ ~showCompanySearch
    /\ ~isAdding

\* C29: a response or an error of a detail fetch that arrives after the
\* ticker has changed or after the unmount (the fetch is not the one of the
\* latest run of the effect of a mounted CardPopup) changes none of
\* companyData, error, loading and the step counter; the record and the
\* error on display change only by the fetch of the ticker shown.
C29_StaleFetchIgnored ==
    /\ [][ (\E fetch \in fetches :
               /\ fetch \notin fetches'
               /\ (fetch.run # effectRun \/ ~cardMounted)) =>
               UNCHANGED <<companyData, cardError, loading,
                           cardCurrentStep>> ]_vars
    /\ [][ ( /\ cardMounted /\ cardMounted'
             /\ \/ (companyData' # companyData)
                \/ (cardError' # cardError /\ cardError' # Null) ) =>
               (\E fetch \in fetches :
                   /\ fetch \notin fetches'
                   /\ fetch.run = effectRun
                   /\ fetch.ticker = cardTicker) ]_vars

\* The answer for ACME has arrived after the ticker changed to BETA: the
\* card still loads BETA and shows nothing of ACME.
C29_Witness ==
    /\ cardEvent = "staleResolved"
    /\ cardMounted
    /\ cardTicker = "BETA"
    /\ loading
    /\ companyData = NullData
    /\ cardError = Null
    /\ \E fetch \in fetches : fetch.ticker = "BETA" /\ fetch.run = effectRun
    /\ \A fetch \in fetches : fetch.ticker # "ACME"

\* C30: whenever the sources modal is open (selectedMetric is not null) its
\* list of sources is not empty and is the list metric_sources holds under
\* selectedMetric.metricKey in the record CardPopup holds now.
C30_ModalShowsSourcesOfRecordHeld ==
    (selectedMetric # NullMetric) =>
        /\ Len(selectedMetric.sources) > 0
        /\ selectedMetric.sources =
               getSourcesForMetric(selectedMetric.metricKey)

\* C31: the step counter of CardPopup is one of 0, 1 and 2 in every state,
\* a tick at 2 leaves it at 2, and whenever loading is false the counter is
\* 0: the answer and the failure of the fetch of the ticker shown both end
\* with loading false and the counter at 0.
C31_CardStepBounded ==
    /\ [] (cardCurrentStep \in {0, 1, 2})
    /\ [] (~loading => cardCurrentStep = 0)
    /\ [][ (cardEvent' = "tick" /\ cardCurrentStep = 2) =>
               cardCurrentStep' = 2 ]_vars
    /\ [][ (cardEvent' \in {"fetchResolved", "fetchRejected"}) =>
               (~loading' /\ cardCurrentStep' = 0) ]_vars

\* The counter has reached 2 while the fetch of the ticker shown is
\* outstanding.
C31_Witness ==
    /\ cardEvent = "tick"
    /\ cardMounted
    /\ loading
    /\ cardCurrentStep = 2
    /\ CardWaiting

\* C32: in CompanySearchPopup an error and an active job never coexist:
\* error is null whenever isAdding is true, and the step that starts a job
\* clears the error and sets the step counter to 0 as it sends the request.
C32_ErrorNeverWithActiveJob ==
    /\ [] (error # Null => ~isAdding)
    /\ [][ (jobs' # jobs) =>
               ( /\ jobs' = jobs + 1
                 /\ error' = Null
                 /\ currentStep' = 0
                 /\ isAdding'
                 /\ Len(requests') = Len(requests) + 1
                 /\ requests'[Len(requests')].job = jobs' ) ]_vars

\* A second job has been started after the first one failed: the error of
\* the failure is gone and the counter is at 0.
C32_Witness ==
    /\ jobs = 2
    /\ thrown # Null
    /\ lastEvent.kind \in SubmitEvents
    /\ isAdding
    /\ error = Null
    /\ currentStep = 0
    /\ LiveRequests # {}

\* C33: the callback of the debounce timer of a term that is empty or made
\* of spaces empties the results instead of taking those of
\* searchCompanies, so that once no debounce timer is pending the popup
\* shows no suggestion for a blank term.
C33_BlankTermShowsNothing ==
    /\ [][ (lastEvent'.kind = "debounce" /\ debounceTimer' # debounceTimer
                /\ Trim(lastEvent'.target) = Empty) =>
               results' = <<>> ]_vars
    /\ [] ( (showCompanySearch /\ debounceTimer = {}
                /\ Trim(searchTerm) = Empty) =>
               results = <<>> )

\* The timer of the term " " has fired over the suggestions of an earlier
\* term: the results are empty, though searchCompanies has companies for
\* the term.
C33_Witness ==
    /\ lastEvent.kind = "debounce"
    /\ lastEvent.target = <<" ">>
    /\ showCompanySearch
    /\ searchTerm = <<" ">>
    /\ debounceTimer = {}
    /\ results = <<>>
    /\ searchCompanies(<<" ">>) # <<>>

\* C34: in the list that calls of handleAddCompany build from the empty
\* list no two entries have the same id: the first entry gets the id 1 and
\* every later one the greatest id of the list plus 1.
C34_DistinctIds ==
    /\ \A i, j \in 1..Len(companies) :
           companies[i].id = companies[j].id => i = j
    /\ (fnOutput.called /\ Has(fnInput, "companies")
            /\ companies # fnInput.companies) =>
           LET newId == companies[Len(companies)].id
           IN IF fnInput.companies = <<>>
              THEN newId = 1
              ELSE /\ \A i \in 1..Len(fnInput.companies) :
                          fnInput.companies[i].id < newId
                   /\ \E i \in 1..Len(fnInput.companies) :
                          fnInput.companies[i].id = newId - 1

\* A third company has been added to a list of two: the ids are 1, 2, 3.
C34_Witness ==
    /\ fnOutput.called
    /\ Has(fnInput, "companies")
    /\ Len(fnInput.companies) = 2
    /\ Len(companies) = 3
    /\ companies[1].id = 1
    /\ companies[2].id = 2
    /\ companies[3].id = 3

\* C35: Dashboard and its popup exist only while isAuthenticated is true; a
\* submit of SignIn sets the flag exactly when the credentials are admin
\* and admin; and once the effect of the mount has run, through every
\* sign-in and sign-out, localStorage holds 'true' under 'isAuthenticated'
\* exactly when the flag is true.
C35_FlagAgreesWithStorage ==
    /\ [] (lastEvent.kind # "boot" =>
               ((authStorage = "true") <=> isAuthenticated))
    /\ [] ((showCompanySearch \/ companies # <<>>) => isAuthenticated)
    /\ [][ (lastEvent'.kind = "open") => (isAuthenticated /\ isAuthenticated')
         ]_vars
    /\ [][ (lastEvent'.kind = "signIn") =>
               (isAuthenticated' <=> lastEvent'.target = <<"admin", "admin">>)
         ]_vars
    /\ [][ (~isAuthenticated /\ isAuthenticated') =>
               \/ lastEvent'.kind = "signIn"
               \/ (lastEvent'.kind = "mount" /\ authStorage = "true") ]_vars

\* A session has ended with a sign-out after the effect of the mount: the
\* flag is false and the key is gone from localStorage.
C35_Witness ==
    /\ lastEvent.kind = "signOut"
    /\ epoch = 1
    /\ ~isAuthenticated
    /\ authStorage = Null

====
